---- MODULE Spec2Model ----
(***************************************************************************)
(* Ghostwriter: the single-client WebSocket acceptor                       *)
(* (crates/server/src/acceptor.rs) and the per-document session actor      *)
(* (crates/server/src/session.rs), as state machines.                      *)
(*                                                                         *)
(* Spec         the acceptor: run_tcp / run_uds, handle_busy and the       *)
(*              spawned handle_connection tasks, with their clients.       *)
(* SpecSession  the session actor: Session::run with its command and frame *)
(*              channels, the debouncer's timer tasks and the file.        *)
(* SpecWal      the write-ahead log (crates/core/src/wal.rs) next to a     *)
(*              buffer and its file, driven through the Wal handle.        *)
(* SpecBurst    the session actor under a long run of frame requests, with *)
(*              both bounded channels filling up.                          *)
(* SpecUndo     the undo stack (crates/core/src/undo.rs) over a buffer.    *)
(* SpecFile     a RopeBuffer opened on a file and saved back through       *)
(*              atomic_write (crates/core/src/buffer.rs, fs.rs).           *)
(* SpecCompose  the frame composers (crates/core/src/viewport.rs, hex.rs)   *)
(*              applied to a buffer text and a viewport.                   *)
(* SpecDebounce the debouncer (crates/core/src/debounce.rs) with the tasks  *)
(*              it spawns and a clock.                                     *)
(* SpecLegacy   the legacy WebSocket server (ghostwriter/src/network/       *)
(*              server.rs): its accept loop, the one client handler and    *)
(*              the file lock shared between clients.                      *)
(* SpecClient   the legacy client (ghostwriter/src/network/client.rs):     *)
(*              connect, recover and request over an unreliable server.    *)
(* SpecEditorUndo the legacy editor's bounded UndoStack                     *)
(*              (ghostwriter/src/editor/undo.rs).                          *)
(* SpecTransport the reader task of Transport and Transport::recv          *)
(*              (crates/core/src/transport.rs) over a stream of messages.  *)
(***************************************************************************)
EXTENDS Integers, Sequences, FiniteSets, TLC

(***************************************************************************)
(* Bounds of the model.                                                    *)
(***************************************************************************)
\* connections that arrive at the listener during one run
MaxConns == 4
\* Binary frames a client sends after the handshake, per connection
MaxTaken == 2
\* commands sent to one session
MaxCmds == 3
\* records appended through one Wal handle and its reopenings
MaxRecs == 2
\* calls made on one UndoStack
MaxOps == 4
\* bytes of a file a RopeBuffer is opened on
MaxFileLen == 3
\* largest first_line, rows and hscroll of a composed viewport
MaxView == 2
\* calls made on one Debouncer
MaxCalls == 3
\* clock ticks of one run of the debouncer
MaxTime == 4
\* commands sent to a session whose frames are received slowly
MaxBurst == 10
\* messages the stream of one WebSocket yields
MaxMsgs == 4
\* connections the legacy server accepts
MaxClients == 3
\* LockRequest messages the legacy server answers
MaxLockReqs == 3
\* requests the legacy client issues
MaxReqs == 3
\* the largest limit of a legacy UndoStack, and the records pushed onto one
MaxLimit == 3
MaxPushes == 5

VARIABLES
    \* ---- acceptor ----
    secret_hash,  \* Option<String>: "none", or a "valid" / "malformed" PHC string
    active,       \* the single-client gate (Arc<AtomicBool>)
    accPc,        \* where the run_tcp loop stands
    backlog,      \* accepted-by-the-kernel connections listener.accept() has not returned yet
    conn,         \* per connection: where its stream is in the acceptor / its handler task
    gone,         \* per connection: the peer has disconnected (sends to it fail)
    out,          \* per connection: what the server wrote on the socket, in order
    seen,         \* per connection: the frames its handler read during the handshake, in order
    taken,        \* per connection: how many Binary frames its running loop has read
    \* ---- session actor ----
    file,         \* the bytes at self.path ("missing" before the first save of a new file)
    opened,       \* the buffer text Session::open loaded (never changes)
    buffer,       \* RopeBuffer text (LF line ends)
    eol,          \* RopeBuffer eol: "Lf" or "CrLf"
    hex_bytes,    \* Option<Vec<u8>>: "none", or the raw bytes of an invalid-UTF-8 file
    doc_v,        \* Session::doc_v
    selection,    \* Session::selection, a byte range [start, end]
    rx,           \* the command channel (mpsc, capacity 8)
    rxOpen,       \* SessionHandle::cmd has not been dropped
    tx,           \* the frame channel (mpsc, capacity 8)
    txOpen,       \* SessionHandle::frames has not been dropped
    spc,          \* where Session::run stands
    cur,          \* the command rx.recv() returned, while it is handled
    pending,      \* the frame emit_frame composed, while tx.send(frame) awaits capacity
    lock,         \* who holds the buffer Mutex: "free", "actor" or "timer"
    sleeping,     \* the debouncer's handle is a task still in sleep(delay)
    fired,        \* debounce tasks past their sleep, waiting for the buffer lock
    sentCmds,     \* every command sent on the command channel, in order
    gotFrames,    \* every frame received from the frame channel, in order
    \* ---- write-ahead log ----
    walFile,      \* the bytes of the WAL file
    wpc,          \* the Wal handle: "closed" (none, or dropped) or "open"
    walDocV,      \* Wal::doc_v of the open handle
    docFile,      \* the bytes of the edited file on disk
    docBuf,       \* the RopeBuffer text of the edited file
    appended,     \* the records appended since the WAL file was last empty, in order
    preText,      \* the buffer text when the WAL file was last empty
    loggedText,   \* the buffer text as of the last logged edit
    synced,       \* every appended record was also applied to docBuf
    damage,       \* what happened to the WAL file behind the handle's back
    nrecs,        \* number of Wal::append calls made
    \* ---- undo stack ----
    ubuf,         \* the RopeBuffer text the UndoStack edits
    past,         \* UndoStack::past
    future,       \* UndoStack::future
    base,         \* per entry of past: the buffer text before the entry was pushed
    lastOp,       \* the last UndoStack call and what it returned
    chain,        \* progress of an edit / undo / redo sequence
    nops,         \* number of UndoStack calls made
    \* ---- buffer file and atomic writer ----
    target,       \* the bytes of the file at path
    original,     \* the bytes RopeBuffer::open read from path
    rope,         \* the RopeBuffer opened on path: text, eol, has_invalid
    edited,       \* the rope was edited since it was opened
    fpc,          \* where save_to / atomic_write stands
    contents,     \* atomic_write's bytes argument: the new contents of path
    old,          \* the bytes at path when atomic_write was entered
    tmp,          \* the bytes of atomic_write's temp file
    \* ---- frame composers ----
    vtext,        \* the bytes of the buffer text, or of the raw file for the hex composer
    vargs,        \* the viewport handed to the composer: first_line, rows, cols, hscroll
    vframe,       \* the frame the composer returned
    \* ---- debouncer ----
    delay,        \* Debouncer::delay, in clock ticks
    handle,       \* Debouncer::handle: 0 (None) or the task spawned by the last call
    dtask,        \* per call: the task it spawned, its state and its times
    now,          \* the clock
    ran,          \* the actions that ran, in order, each with its call and its time
    burst,        \* every call so far but the first was made before the previous call's delay elapsed
    \* ---- transport ----
    wire,         \* what the socket's stream yields, in order, if read to the end
    tpos,         \* how many items of wire the reader task has taken
    rpc,          \* the reader task: "run" or "ended"
    chan,         \* the unbounded channel from the reader task to Transport::recv
    yielded,      \* the payloads Transport::recv returned, in order
    recvNone,     \* Transport::recv has returned None
    pongs,        \* the Pong frames the reader task sent, in order
    \* ---- legacy server ----
    client_active,\* GhostwriterServer.client_active
    held,         \* GhostwriterServer.lock holds Some(FileLock)
    runPc,        \* GhostwriterServer::run: "accept", "busy_handshake", "busy_send", or how it returned
    hpc,          \* the spawned handle_client: "none", "handshake", "auth", "loop"
    nconn,        \* connections accepted so far
    mine,         \* the client being served was granted the lock
    ended,        \* how the last handle_client ended
    replies,      \* LockResponse.success of each reply sent, with whether the asker held the lock
    \* ---- legacy client ----
    cws,          \* GhostwriterClient.ws is Some
    status,       \* GhostwriterClient.status
    queue,        \* GhostwriterClient.queue, the ids of the queued messages
    cpc,          \* the running call: "idle", "connect", "auth", "flush", "send", "wait"
    call,         \* the running call: connect/recover or request, and its message
    cdelay,       \* ensure_connection's local delay
    attempts,     \* connect_async calls made by the running call
    flushing,     \* flush_queue's local queued, the part not yet sent
    nextId,       \* the id of the next call and of its message
    sentLog,      \* the ids of the messages sent to the server, in order
    enqueued,     \* the ids ever pushed onto the queue
    \* ---- legacy editor undo ----
    limit,        \* UndoStack.limit
    entries,      \* UndoStack.entries
    position,     \* UndoStack.position
    erope,        \* the rope passed to undo and redo
    ecursor,      \* the cursor passed to undo and redo
    npush         \* records pushed so far

avars == <<secret_hash, active, accPc, backlog, conn, gone, out, seen, taken>>

svars == <<file, opened, buffer, eol, hex_bytes, doc_v, selection, rx, rxOpen, tx, txOpen,
           spc, cur, pending, lock, sleeping, fired, sentCmds, gotFrames>>

wvars == <<walFile, wpc, walDocV, docFile, docBuf, appended, preText, loggedText, synced,
           damage, nrecs>>

uvars == <<ubuf, past, future, base, lastOp, chain, nops>>

fvars == <<target, original, rope, edited, fpc, contents, old, tmp>>

cvars == <<vtext, vargs, vframe>>

dvars == <<delay, handle, dtask, now, ran, burst>>

tvars == <<wire, tpos, rpc, chan, yielded, recvNone, pongs>>

lvars == <<client_active, held, runPc, hpc, nconn, mine, ended, replies>>

kvars == <<cws, status, queue, cpc, call, cdelay, attempts, flushing, nextId, sentLog, enqueued>>

evars == <<limit, entries, position, erope, ecursor, npush>>

vars == <<avars, svars, wvars, uvars, fvars, cvars, dvars, tvars, lvars, kvars, evars>>

Conns == 1..MaxConns

(***************************************************************************)
(* Frames a client can put on the socket.  A Binary frame carries the      *)
(* MessagePack bytes of an Envelope {v, type, data}: ty is the envelope's  *)
(* type tag and data is what the payload bytes are.  End is the end of the *)
(* stream (ws.next() = None), Err a socket error (Some(Err(_))), Text any  *)
(* non-binary frame.                                                       *)
(***************************************************************************)
Bin(ty, data) == [kind |-> "Binary", ty |-> ty, data |-> data]

Ctl(kind) == [kind |-> kind, ty |-> "-", data |-> "-"]

ClientFrames ==
    { Bin("Hello", "hello"),        \* Envelope::new(MessageType::Hello, Hello{..})
      Bin("Insert", "hello"),       \* a Hello payload under another type tag
      Bin("Auth", "auth_good"),     \* Auth{secret} with the secret that verifies
      Bin("Auth", "auth_bad"),      \* Auth{secret} with another secret
      Bin("Insert", "insert"),      \* a command envelope
      Bin("-", "junk"),             \* bytes that are no envelope
      Ctl("Text"), Ctl("End"), Ctl("Err") }

Terminal(m) == m.kind \in {"End", "Err"}

\* decode::<Envelope<Hello>>: rmp_serde deserializes v, type and data; the
\* type tag is deserialized but compared with nothing.
DecodesAsHello(m) == m.kind = "Binary" /\ m.data = "hello"

\* decode::<Envelope<Auth>>
DecodesAsAuth(m) == m.kind = "Binary" /\ m.data \in {"auth_good", "auth_bad"}

\* mutant of VerifyPassword: the result of the verification is not looked at
VerifyAnything(m) == TRUE

\* argon2.verify_password(env.data.secret, &parsed).is_ok()
VerifyPassword(m) == m.data = "auth_good"

\* ws.send(..) / ws.close(..) with the result dropped (let _ =): the frame
\* reaches the socket unless the peer has gone.
Sent(c, what) == IF gone[c] THEN out[c] ELSE Append(out[c], what)

\* the WebSocketStream is dropped: nothing more is read from or written to it
Dropped(f, c) == [f EXCEPT ![c] = <<>>]

\* states of a connection inside the spawned handle_connection task
HandlerStates == {"hello", "auth", "unauth", "closing", "running"}

\* states of a connection inside handle_busy
BusyStates == {"busy_send", "busy_close"}

InitAcceptor ==
    /\ secret_hash \in {"none", "valid", "malformed"}
    /\ active = FALSE
    /\ accPc = "accept"
    /\ backlog = <<>>
    /\ conn = [c \in Conns |-> "idle"]
    /\ gone = [c \in Conns |-> FALSE]
    /\ out = [c \in Conns |-> <<>>]
    /\ seen = [c \in Conns |-> <<>>]
    /\ taken = [c \in Conns |-> 0]

(***************************************************************************)
(* Clients.                                                                *)
(***************************************************************************)
\* a client connects: the kernel queues the connection for listener.accept()
Connect(c) ==
    /\ conn[c] = "idle"
    /\ \A d \in Conns : d < c => conn[d] # "idle"
    /\ conn' = [conn EXCEPT ![c] = "backlog"]
    /\ backlog' = Append(backlog, c)
    /\ UNCHANGED <<svars, wvars, uvars, fvars, cvars, dvars, tvars, lvars, kvars, evars>>
    /\ UNCHANGED <<secret_hash, active, accPc, gone, out, seen, taken>>

\* the peer disconnects while the server is about to write to it
PeerDrop(c) ==
    /\ conn[c] \in BusyStates \cup {"unauth"}
    /\ ~gone[c]
    /\ gone' = [gone EXCEPT ![c] = TRUE]
    /\ UNCHANGED <<svars, wvars, uvars, fvars, cvars, dvars, tvars, lvars, kvars, evars>>
    /\ UNCHANGED <<secret_hash, active, accPc, backlog, conn, out, seen, taken>>

(***************************************************************************)
(* run_tcp / run_uds: the accept loop.  One connection at a time is        *)
(* accepted, handshaken and either answered Busy inline or handed to a     *)
(* spawned handle_connection task.                                         *)
(***************************************************************************)
\* mutant of GateSet: the gate is never seen as set
GateNeverSet == FALSE

\* active.load(Ordering::SeqCst)
GateSet == active

\* listener.accept().await returns the oldest queued connection
Accept ==
    /\ accPc = "accept"
    /\ backlog # <<>>
    /\ conn' = [conn EXCEPT ![Head(backlog)] = "handshake"]
    /\ backlog' = Tail(backlog)
    /\ accPc' = "handshake"
    /\ UNCHANGED <<svars, wvars, uvars, fvars, cvars, dvars, tvars, lvars, kvars, evars>>
    /\ UNCHANGED <<secret_hash, active, gone, out, seen, taken>>

\* listener.accept().await? fails: run_tcp returns the error
AcceptError ==
    /\ accPc = "accept"
    /\ accPc' = "dead"
    /\ UNCHANGED <<svars, wvars, uvars, fvars, cvars, dvars, tvars, lvars, kvars, evars>>
    /\ UNCHANGED <<secret_hash, active, backlog, conn, gone, out, seen, taken>>

\* accept_async(stream).await.map_err(..)? fails: run_tcp returns the error
HandshakeError(c) ==
    /\ accPc = "handshake"
    /\ conn[c] = "handshake"
    /\ conn' = [conn EXCEPT ![c] = "failed"]
    /\ accPc' = "dead"
    /\ UNCHANGED <<svars, wvars, uvars, fvars, cvars, dvars, tvars, lvars, kvars, evars>>
    /\ UNCHANGED <<secret_hash, active, backlog, gone, out, seen, taken>>

\* accept_async succeeded: answer Busy when the gate is set, otherwise set
\* the gate and spawn handle_connection
Dispatch(c) ==
    /\ accPc = "handshake"
    /\ conn[c] = "handshake"
    /\ IF GateSet
         THEN /\ conn' = [conn EXCEPT ![c] = "busy_send"]
              /\ accPc' = "busy"
              /\ UNCHANGED active
         ELSE /\ active' = TRUE
              /\ conn' = [conn EXCEPT ![c] = "hello"]
              /\ accPc' = "accept"
    /\ UNCHANGED <<svars, wvars, uvars, fvars, cvars, dvars, tvars, lvars, kvars, evars>>
    /\ UNCHANGED <<secret_hash, backlog, gone, out, seen, taken>>

\* mutant of BusyReply: the error code of the other rejection path
BusyReplyUnauthorized == "Error_Unauthorized"

\* the envelope handle_busy sends
BusyReply == "Error_Busy"

\* handle_busy: ws.send(Error{Busy})
HandleBusySend(c) ==
    /\ accPc = "busy"
    /\ conn[c] = "busy_send"
    /\ out' = [out EXCEPT ![c] = Sent(c, BusyReply)]
    /\ conn' = [conn EXCEPT ![c] = "busy_close"]
    /\ UNCHANGED <<svars, wvars, uvars, fvars, cvars, dvars, tvars, lvars, kvars, evars>>
    /\ UNCHANGED <<secret_hash, active, accPc, backlog, gone, seen, taken>>

\* handle_busy: ws.close(None), then back to the top of the loop
HandleBusyClose(c) ==
    /\ accPc = "busy"
    /\ conn[c] = "busy_close"
    /\ out' = [out EXCEPT ![c] = Sent(c, "Close")]
    /\ conn' = [conn EXCEPT ![c] = "rejected"]
    /\ accPc' = "accept"
    /\ UNCHANGED <<svars, wvars, uvars, fvars, cvars, dvars, tvars, lvars, kvars, evars>>
    /\ UNCHANGED <<secret_hash, active, backlog, gone, seen, taken>>

(***************************************************************************)
(* handle_connection: the spawned task of the admitted connection.         *)
(***************************************************************************)
\* mutant of ExitGate: a return path that leaves the gate as it is
ExitGateKept == active

\* the value every return path of handle_connection stores into active
ExitGate == FALSE

\* ws.next().await, expecting Hello; m is what the stream yields
ExpectHello(c, m) ==
    /\ conn[c] = "hello"
    /\ seen' = [seen EXCEPT ![c] = Append(@, m)]
    /\ gone' = [gone EXCEPT ![c] = Terminal(m)]
    /\ IF DecodesAsHello(m)
         THEN /\ conn' = [conn EXCEPT ![c] =
                            IF secret_hash = "none" THEN "running" ELSE "auth"]
              /\ UNCHANGED out
         ELSE /\ out' = [out EXCEPT ![c] =
                           IF Terminal(m) THEN @ ELSE Append(@, "Close")]
              /\ conn' = [conn EXCEPT ![c] = "closing"]
    /\ UNCHANGED <<svars, wvars, uvars, fvars, cvars, dvars, tvars, lvars, kvars, evars>>
    /\ UNCHANGED <<secret_hash, active, accPc, backlog, taken>>

\* ws.next().await, expecting Auth; PasswordHash::new(&hash).expect(..) panics
\* on a malformed hash string, after the Auth envelope has been decoded
ExpectAuth(c, m) ==
    /\ conn[c] = "auth"
    /\ IF ~DecodesAsAuth(m)
         THEN /\ out' = [out EXCEPT ![c] =
                           IF Terminal(m) THEN @ ELSE Append(@, "Close")]
              /\ conn' = [conn EXCEPT ![c] = "closing"]
              /\ seen' = [seen EXCEPT ![c] = Append(@, m)]
              /\ gone' = [gone EXCEPT ![c] = Terminal(m)]
         ELSE IF secret_hash = "malformed"
         THEN \* the task unwinds: the stream is dropped, active is not touched
              /\ conn' = [conn EXCEPT ![c] = "panicked"]
              /\ seen' = Dropped(seen, c)
              /\ out' = Dropped(out, c)
              /\ gone' = [gone EXCEPT ![c] = TRUE]
         ELSE IF ~VerifyPassword(m)
         THEN /\ out' = [out EXCEPT ![c] = Append(@, "Error_Unauthorized")]
              /\ conn' = [conn EXCEPT ![c] = "unauth"]
              /\ seen' = [seen EXCEPT ![c] = Append(@, m)]
              /\ UNCHANGED gone
         ELSE /\ conn' = [conn EXCEPT ![c] = "running"]
              /\ seen' = [seen EXCEPT ![c] = Append(@, m)]
              /\ UNCHANGED <<out, gone>>
    /\ UNCHANGED <<svars, wvars, uvars, fvars, cvars, dvars, tvars, lvars, kvars, evars>>
    /\ UNCHANGED <<secret_hash, active, accPc, backlog, taken>>

\* ws.close(None) after Error{Unauthorized}
CloseUnauthorized(c) ==
    /\ conn[c] = "unauth"
    /\ out' = [out EXCEPT ![c] = Sent(c, "Close")]
    /\ conn' = [conn EXCEPT ![c] = "closing"]
    /\ UNCHANGED <<svars, wvars, uvars, fvars, cvars, dvars, tvars, lvars, kvars, evars>>
    /\ UNCHANGED <<secret_hash, active, accPc, backlog, gone, seen, taken>>

\* active.store(false); return, after ws.close(None).await completed
HandlerReturn(c) ==
    /\ conn[c] = "closing"
    /\ active' = ExitGate
    /\ conn' = [conn EXCEPT ![c] = "closed"]
    /\ seen' = Dropped(seen, c)
    /\ out' = Dropped(out, c)
    /\ gone' = [gone EXCEPT ![c] = TRUE]
    /\ UNCHANGED <<svars, wvars, uvars, fvars, cvars, dvars, tvars, lvars, kvars, evars>>
    /\ UNCHANGED <<secret_hash, accPc, backlog, taken>>

\* while let Some(msg) = ws.next().await { if msg.is_err() { break; } }
\* followed by active.store(false): every frame is read and dropped
RunLoop(c, m) ==
    /\ conn[c] = "running"
    /\ IF Terminal(m)
         THEN /\ active' = ExitGate
              /\ conn' = [conn EXCEPT ![c] = "closed"]
              /\ seen' = Dropped(seen, c)
              /\ out' = Dropped(out, c)
              /\ gone' = [gone EXCEPT ![c] = TRUE]
              /\ taken' = [taken EXCEPT ![c] = 0]
         ELSE /\ m.kind = "Binary" => taken[c] < MaxTaken
              /\ taken' = [taken EXCEPT ![c] = IF m.kind = "Binary" THEN @ + 1 ELSE @]
              /\ UNCHANGED <<active, conn, seen, out, gone>>
    /\ UNCHANGED <<svars, wvars, uvars, fvars, cvars, dvars, tvars, lvars, kvars, evars>>
    /\ UNCHANGED <<secret_hash, accPc, backlog>>

(***************************************************************************)
(* RopeBuffer: open, insert, save_to.  Bytes and chars are small tokens:    *)
(* "CR", "LF", letters, "FF" (a byte that is not valid UTF-8) and "FFFD"    *)
(* (the replacement character).                                            *)
(***************************************************************************)
NotFound == <<"NotFound">>

None == <<"None">>

\* String::from_utf8(bytes).is_ok()
ValidUtf8(bytes) == \A i \in 1..Len(bytes) : bytes[i] # "FF"

\* String::from_utf8_lossy
Lossy(bytes) == [i \in 1..Len(bytes) |-> IF bytes[i] = "FF" THEN "FFFD" ELSE bytes[i]]

\* text.contains("\r\n")
ContainsCrLf(t) == \E i \in 1..(Len(t) - 1) : t[i] = "CR" /\ t[i + 1] = "LF"

\* text.replace("\r\n", "\n")
RECURSIVE CrLfToLf(_)
CrLfToLf(t) ==
    IF t = <<>> THEN <<>>
    ELSE IF Len(t) >= 2 /\ t[1] = "CR" /\ t[2] = "LF"
    THEN <<"LF">> \o CrLfToLf(SubSeq(t, 3, Len(t)))
    ELSE <<t[1]>> \o CrLfToLf(Tail(t))

\* text.replace('\n', "\r\n")
RECURSIVE LfToCrLf(_)
LfToCrLf(t) ==
    IF t = <<>> THEN <<>>
    ELSE IF t[1] = "LF"
    THEN <<"CR", "LF">> \o LfToCrLf(Tail(t))
    ELSE <<t[1]>> \o LfToCrLf(Tail(t))

\* RopeBuffer::open, with Session::open's fallback to from_text("") on NotFound
OpenBuffer(f) ==
    IF f = NotFound
    THEN [text |-> <<>>, has_invalid |-> FALSE, eol |-> "Lf"]
    ELSE LET t == IF ValidUtf8(f) THEN f ELSE Lossy(f) IN
         [text |-> IF ContainsCrLf(t) THEN CrLfToLf(t) ELSE t,
          has_invalid |-> ~ValidUtf8(f),
          eol |-> IF ContainsCrLf(t) THEN "CrLf" ELSE "Lf"]

\* RopeBuffer::insert(byte_idx, text)
\* mutant of BufInsert: the text goes to the end of the buffer
BufInsertAtEnd(t, idx, text) == t \o text

BufInsert(t, idx, text) == SubSeq(t, 1, idx) \o text \o SubSeq(t, idx + 1, Len(t))

\* the bytes RopeBuffer::save_to hands to atomic_write
\* mutant of SaveBytes: the text is written as it is held, with LF line ends
SaveBytesRaw(t, e) == t

SaveBytes(t, e) == IF e = "CrLf" THEN LfToCrLf(t) ELSE t

(***************************************************************************)
(* Session (crates/server/src/session.rs).                                 *)
(***************************************************************************)
\* mpsc::channel(8), both channels
ChanCap == 8

\* the files a session is opened on
InitFiles ==
    { NotFound, <<"h">>, <<"h", "CR", "LF">>, <<"FF", "h">> }

\* the texts Insert commands carry
InsertTexts == { <<"a">>, <<"b", "LF">> }

Commands ==
    [op : {"Insert"}, text : InsertTexts]
      \cup { [op |-> "RequestFrame", text |-> <<>>], [op |-> "Save", text |-> <<>>] }

NoCmd == [op |-> "-", text |-> <<>>]

NoFrame == [kind |-> "-", doc_v |-> 0, lines |-> <<>>]

\* compose_viewport(&buf, first_line, cols, rows, hscroll, params): an
\* "editor" frame carrying params.doc_v and the buffer's visible lines
ComposeViewport(t, v) == [kind |-> "editor", doc_v |-> v, lines |-> t]

\* compose_hex(bytes, first_row, cols, rows, doc_v, ..)
ComposeHex(bytes, v) == [kind |-> "hex", doc_v |-> v, lines |-> bytes]

\* the frame Session::emit_frame composes from a session state
ComposeFrame(hb, t, v) ==
    IF hb # None THEN ComposeHex(hb, v) ELSE ComposeViewport(t, v)

\* mutant of BumpDocV: the increment is missing
KeepDocV(v) == v

\* self.doc_v += 1
BumpDocV(v) == v + 1

\* mutant of RxPop: the newest queued command is handed out first
RxPopNewest(q) == [cmd |-> q[Len(q)], rest |-> SubSeq(q, 1, Len(q) - 1)]

\* rx.recv() hands out the oldest queued command
RxPop(q) == [cmd |-> Head(q), rest |-> Tail(q)]

\* std::fs::read(&path).ok(): the bytes, or None when the read fails
ReadOk(f) == { f, None }

\* !self.hex_bytes.is_none(): the session shows the raw bytes
\* mutant of HexMode: the check is missing
HexModeNever(hb) == FALSE

HexMode(hb) == hb # None

InitSession ==
    /\ file \in InitFiles
    /\ opened = OpenBuffer(file).text
    /\ buffer = opened
    /\ eol = OpenBuffer(file).eol
    /\ hex_bytes \in (IF OpenBuffer(file).has_invalid THEN ReadOk(file) ELSE { None })
    /\ doc_v = 0
    /\ selection = [start |-> 0, end |-> 0]
    /\ rx = <<>>
    /\ rxOpen = TRUE
    /\ tx = <<>>
    /\ txOpen = TRUE
    /\ spc = "recv"
    /\ cur = NoCmd
    /\ pending = NoFrame
    /\ lock = "free"
    /\ sleeping = FALSE
    /\ fired = 0
    /\ sentCmds = <<>>
    /\ gotFrames = <<>>

\* Session::status, the status_left of every frame: set to "server" when the
\* session is spawned and assigned nowhere else, whether or not a save failed
StatusLeft(save_failed) == "server"

\* tx.send(frame).await on the bounded frame channel: ready once the queue
\* has room, and the frame is then queued
\* mutant of FrameSend: try_send, which gives the frame up when the queue is full
FrameTrySend(q, f) ==
    [ready |-> TRUE, queue |-> IF Len(q) < ChanCap THEN Append(q, f) ELSE q]

FrameSend(q, f) == [ready |-> Len(q) < ChanCap, queue |-> Append(q, f)]

\* buffer.lock() returns its guard: nobody else holds the Mutex
\* mutant of MutexFree: the buffer is used without the lock
MutexIgnored(l) == TRUE

MutexFree(l) == l = "free"

\* rx.recv().await is None: every sender is dropped and the queue is empty
\* mutant of RecvIsNone: None as soon as the senders are dropped
RecvIsNoneOnClose(q, open) == ~open

RecvIsNone(q, open) == q = <<>> /\ ~open

\* ---- the holder of the SessionHandle ----
\* handle.cmd.send(cmd).await
SendCmd(cmd) ==
    /\ rxOpen
    /\ spc # "done"
    /\ Len(sentCmds) < MaxCmds
    /\ Len(rx) < ChanCap
    /\ rx' = Append(rx, cmd)
    /\ sentCmds' = Append(sentCmds, cmd)
    /\ UNCHANGED <<avars, wvars, uvars, fvars, cvars, dvars, tvars, lvars, kvars, evars>>
    /\ UNCHANGED <<file, opened, buffer, eol, hex_bytes, doc_v, selection, rxOpen, tx, txOpen,
                   spc, cur, pending, lock, sleeping, fired, gotFrames>>

\* handle.cmd.send(cmd).await in a long run of requests: an Insert first, if
\* any, and RequestFrame from then on
SendBurst(cmd) ==
    /\ rxOpen
    /\ Len(sentCmds) < MaxBurst
    /\ cmd.op = "RequestFrame" \/ (cmd.op = "Insert" /\ sentCmds = <<>>)
    /\ Len(rx) < ChanCap
    /\ rx' = Append(rx, cmd)
    /\ sentCmds' = Append(sentCmds, cmd)
    /\ UNCHANGED <<avars, wvars, uvars, fvars, cvars, dvars, tvars, lvars, kvars, evars>>
    /\ UNCHANGED <<file, opened, buffer, eol, hex_bytes, doc_v, selection, rxOpen, tx, txOpen,
                   spc, cur, pending, lock, sleeping, fired, gotFrames>>

\* drop(handle.cmd): the command channel is closed
DropCmd ==
    /\ rxOpen
    /\ rxOpen' = FALSE
    /\ UNCHANGED <<avars, wvars, uvars, fvars, cvars, dvars, tvars, lvars, kvars, evars>>
    /\ UNCHANGED <<file, opened, buffer, eol, hex_bytes, doc_v, selection, rx, tx, txOpen,
                   spc, cur, pending, lock, sleeping, fired, sentCmds, gotFrames>>

\* handle.frames.recv().await
RecvFrame ==
    /\ txOpen
    /\ tx # <<>>
    /\ gotFrames' = Append(gotFrames, Head(tx))
    /\ tx' = Tail(tx)
    /\ UNCHANGED <<avars, wvars, uvars, fvars, cvars, dvars, tvars, lvars, kvars, evars>>
    /\ UNCHANGED <<file, opened, buffer, eol, hex_bytes, doc_v, selection, rx, rxOpen, txOpen,
                   spc, cur, pending, lock, sleeping, fired, sentCmds>>

\* drop(handle.frames): queued frames are discarded, later sends fail
DropFrames ==
    /\ txOpen
    /\ txOpen' = FALSE
    /\ tx' = <<>>
    /\ UNCHANGED <<avars, wvars, uvars, fvars, cvars, dvars, tvars, lvars, kvars, evars>>
    /\ UNCHANGED <<file, opened, buffer, eol, hex_bytes, doc_v, selection, rx, rxOpen,
                   spc, cur, pending, lock, sleeping, fired, sentCmds, gotFrames>>

\* ---- Session::run ----
\* while let Some(cmd) = rx.recv().await
Recv ==
    /\ spc = "recv"
    /\ rx # <<>>
    /\ cur' = RxPop(rx).cmd
    /\ rx' = RxPop(rx).rest
    /\ spc' = "cmd"
    /\ UNCHANGED <<avars, wvars, uvars, fvars, cvars, dvars, tvars, lvars, kvars, evars>>
    /\ UNCHANGED <<file, opened, buffer, eol, hex_bytes, doc_v, selection, rxOpen, tx, txOpen,
                   pending, lock, sleeping, fired, sentCmds, gotFrames>>

\* rx.recv() returns None: the channel is closed and drained
RecvNone ==
    /\ spc = "recv"
    /\ RecvIsNone(rx, rxOpen)
    /\ spc' = "final"
    /\ UNCHANGED <<avars, wvars, uvars, fvars, cvars, dvars, tvars, lvars, kvars, evars>>
    /\ UNCHANGED <<file, opened, buffer, eol, hex_bytes, doc_v, selection, rx, rxOpen, tx, txOpen,
                   cur, pending, lock, sleeping, fired, sentCmds, gotFrames>>

\* SessionCmd::Insert { text }: in hex mode nothing; otherwise insert at
\* selection.end under the buffer lock, move the selection, bump doc_v,
\* debounce.call(save) (aborting a task still asleep) and compose the frame
DoInsert ==
    /\ spc = "cmd"
    /\ cur.op = "Insert"
    /\ IF HexMode(hex_bytes)
         THEN /\ spc' = "recv"
              /\ UNCHANGED <<buffer, selection, doc_v, sleeping, pending>>
         ELSE /\ MutexFree(lock)
              /\ buffer' = BufInsert(buffer, selection.end, cur.text)
              /\ selection' = [start |-> selection.end + Len(cur.text),
                               end |-> selection.end + Len(cur.text)]
              /\ doc_v' = BumpDocV(doc_v)
              /\ sleeping' = TRUE
              /\ pending' = ComposeFrame(hex_bytes, buffer', doc_v')
              /\ spc' = "emit"
    /\ cur' = NoCmd
    /\ UNCHANGED <<avars, wvars, uvars, fvars, cvars, dvars, tvars, lvars, kvars, evars>>
    /\ UNCHANGED <<file, opened, eol, hex_bytes, rx, rxOpen, tx, txOpen, lock, fired,
                   sentCmds, gotFrames>>

\* SessionCmd::RequestFrame: compose the current frame
DoRequestFrame ==
    /\ spc = "cmd"
    /\ cur.op = "RequestFrame"
    /\ hex_bytes = None => MutexFree(lock)
    /\ pending' = ComposeFrame(hex_bytes, buffer, doc_v)
    /\ spc' = "emit"
    /\ cur' = NoCmd
    /\ UNCHANGED <<avars, wvars, uvars, fvars, cvars, dvars, tvars, lvars, kvars, evars>>
    /\ UNCHANGED <<file, opened, buffer, eol, hex_bytes, doc_v, selection, rx, rxOpen, tx, txOpen,
                   lock, sleeping, fired, sentCmds, gotFrames>>

\* emit_frame: let _ = tx.send(frame).await; waits for capacity, fails
\* (dropping the frame) when the receiver is gone
Emit ==
    /\ spc = "emit"
    /\ IF txOpen
         THEN /\ FrameSend(tx, pending).ready
              /\ tx' = FrameSend(tx, pending).queue
         ELSE UNCHANGED tx
    /\ pending' = NoFrame
    /\ spc' = "recv"
    /\ UNCHANGED <<avars, wvars, uvars, fvars, cvars, dvars, tvars, lvars, kvars, evars>>
    /\ UNCHANGED <<file, opened, buffer, eol, hex_bytes, doc_v, selection, rx, rxOpen, txOpen,
                   cur, lock, sleeping, fired, sentCmds, gotFrames>>

\* SessionCmd::Save: in hex mode nothing; otherwise lock the buffer and save_to
DoSave ==
    /\ spc = "cmd"
    /\ cur.op = "Save"
    /\ IF HexMode(hex_bytes)
         THEN /\ spc' = "recv"
              /\ UNCHANGED lock
         ELSE /\ MutexFree(lock)
              /\ lock' = "actor"
              /\ spc' = "saving"
    /\ cur' = NoCmd
    /\ UNCHANGED <<avars, wvars, uvars, fvars, cvars, dvars, tvars, lvars, kvars, evars>>
    /\ UNCHANGED <<file, opened, buffer, eol, hex_bytes, doc_v, selection, rx, rxOpen, tx, txOpen,
                   pending, sleeping, fired, sentCmds, gotFrames>>

\* after the loop: in hex mode nothing; otherwise lock the buffer and save_to
FinalFlush ==
    /\ spc = "final"
    /\ IF HexMode(hex_bytes)
         THEN /\ spc' = "done"
              /\ UNCHANGED lock
         ELSE /\ MutexFree(lock)
              /\ lock' = "actor"
              /\ spc' = "flushing"
    /\ UNCHANGED <<avars, wvars, uvars, fvars, cvars, dvars, tvars, lvars, kvars, evars>>
    /\ UNCHANGED <<file, opened, buffer, eol, hex_bytes, doc_v, selection, rx, rxOpen, tx, txOpen,
                   cur, pending, sleeping, fired, sentCmds, gotFrames>>

\* let _ = buf.save_to(&self.path) returns: the rename happened (ok) or an
\* I/O error left the file as it was; the lock guard is dropped
ActorSaveEnd(ok) ==
    /\ spc \in {"saving", "flushing"}
    /\ lock = "actor"
    /\ file' = IF ok THEN SaveBytes(buffer, eol) ELSE file
    /\ lock' = "free"
    /\ spc' = IF spc = "saving" THEN "recv" ELSE "done"
    /\ UNCHANGED <<avars, wvars, uvars, fvars, cvars, dvars, tvars, lvars, kvars, evars>>
    /\ UNCHANGED <<opened, buffer, eol, hex_bytes, doc_v, selection, rx, rxOpen, tx, txOpen,
                   cur, pending, sleeping, fired, sentCmds, gotFrames>>

\* ---- the task Debouncer::call spawned ----
\* sleep(delay).await completes
TimerFire ==
    /\ sleeping
    /\ sleeping' = FALSE
    /\ fired' = fired + 1
    /\ UNCHANGED <<avars, wvars, uvars, fvars, cvars, dvars, tvars, lvars, kvars, evars>>
    /\ UNCHANGED <<file, opened, buffer, eol, hex_bytes, doc_v, selection, rx, rxOpen, tx, txOpen,
                   spc, cur, pending, lock, sentCmds, gotFrames>>

\* the action: if let Ok(buf) = buffer.lock()
TimerLock ==
    /\ fired > 0
    /\ MutexFree(lock)
    /\ lock' = "timer"
    /\ fired' = fired - 1
    /\ UNCHANGED <<avars, wvars, uvars, fvars, cvars, dvars, tvars, lvars, kvars, evars>>
    /\ UNCHANGED <<file, opened, buffer, eol, hex_bytes, doc_v, selection, rx, rxOpen, tx, txOpen,
                   spc, cur, pending, sleeping, sentCmds, gotFrames>>

\* the action: let _ = buf.save_to(&path) returns and the guard is dropped
TimerSaveEnd(ok) ==
    /\ lock = "timer"
    /\ file' = IF ok THEN SaveBytes(buffer, eol) ELSE file
    /\ lock' = "free"
    /\ UNCHANGED <<avars, wvars, uvars, fvars, cvars, dvars, tvars, lvars, kvars, evars>>
    /\ UNCHANGED <<opened, buffer, eol, hex_bytes, doc_v, selection, rx, rxOpen, tx, txOpen,
                   spc, cur, pending, sleeping, fired, sentCmds, gotFrames>>

(***************************************************************************)
(* Write-ahead log (crates/core/src/wal.rs).  Files are sequences of bytes *)
(* (0..255); a text is the sequence of its bytes.                          *)
(***************************************************************************)
\* b"GWAL"
MAGIC == <<71, 87, 65, 76>>

VERSION == 1

TYPE_INSERT == 1

TYPE_DELETE == 2

\* EditRecord { doc_v, op: EditOp::Insert { idx, bytes } }
InsertRec(v, idx, bytes) ==
    [doc_v |-> v, op |-> "Insert", idx |-> idx, bytes |-> bytes, start |-> 0, end |-> 0]

\* EditRecord { doc_v, op: EditOp::Delete { range: start..end } }
DeleteRec(v, start, end) ==
    [doc_v |-> v, op |-> "Delete", idx |-> 0, bytes |-> <<>>, start |-> start, end |-> end]

\* mutant of ToBE: the w bytes of n, least significant first
RECURSIVE ToLE(_, _)
ToLE(n, w) == IF w = 0 THEN <<>> ELSE <<n % 256>> \o ToLE(n \div 256, w - 1)

\* n.to_be_bytes() of a w-byte unsigned integer
RECURSIVE ToBE(_, _)
ToBE(n, w) == IF w = 0 THEN <<>> ELSE Append(ToBE(n \div 256, w - 1), n % 256)

\* u64::from_be_bytes / u32::from_be_bytes
RECURSIVE FromBE(_)
FromBE(b) ==
    IF b = <<>> THEN 0 ELSE FromBE(SubSeq(b, 1, Len(b) - 1)) * 256 + b[Len(b)]

\* crc32fast::Hasher over s, as the four big-endian bytes of the u32: a
\* 32-bit checksum in which every byte of s and its position count
RECURSIVE Crc32(_)
Crc32(s) ==
    IF s = <<>>
      THEN <<0, 0, 0, 0>>
      ELSE LET c == Crc32(SubSeq(s, 1, Len(s) - 1))
               a1 == (c[4] + s[Len(s)] + 1) % 256
               a2 == (c[3] + a1) % 256
               a3 == (c[2] + a2) % 256
               a4 == (c[1] + a3) % 256
           IN  <<a4, a3, a2, a1>>

\* the payload Wal::append builds for a record's op
Payload(record) ==
    IF record.op = "Insert"
      THEN ToBE(record.idx, 8) \o record.bytes
      ELSE ToBE(record.start, 8) \o ToBE(record.end, 8)

\* the record type Wal::append picks for a record's op
RecordType(record) == IF record.op = "Insert" THEN TYPE_INSERT ELSE TYPE_DELETE

\* type_section: op type, payload length (u32), payload
TypeSection(typ, payload) == <<typ>> \o ToBE(Len(payload), 4) \o payload

\* record_bytes: magic, version, doc_v (u64), type_section, crc (u32)
RecordBytes(magic, version, v, typ, payload) ==
    magic \o <<version>> \o ToBE(v, 8) \o TypeSection(typ, payload)
      \o Crc32(TypeSection(typ, payload))

\* what Wal::append writes at the end of the file for a record
AppendBytes(record) ==
    RecordBytes(MAGIC, VERSION, record.doc_v, RecordType(record), Payload(record))

\* f.read_exact(&mut buf) of n bytes at offset pos
ReadExact(f, pos, n) ==
    IF pos + n <= Len(f)
      THEN [ok |-> TRUE, buf |-> SubSeq(f, pos + 1, pos + n)]
      ELSE [ok |-> FALSE, buf |-> <<>>]

\* mutant of ShortRead: a failed read_exact fails the whole replay
ShortReadLoses(records) == <<>>

\* a failed read_exact ends the loop: break, the records read so far stand
ShortRead(records) == records

\* mutant of BadCrc: a record whose CRC does not match is kept
BadCrcIgnored(expected_crc, actual_crc) == FALSE

\* expected_crc != actual_crc
BadCrc(expected_crc, actual_crc) == expected_crc # actual_crc

\* the loop of Wal::replay from offset pos of file f, with the records read
\* so far; `continue` goes on behind the record just read
RECURSIVE ReplayFrom(_, _, _)
ReplayFrom(f, pos, records) ==
    LET header == ReadExact(f, pos, 13)
        type_buf == ReadExact(f, pos + 13, 5)
        typ == type_buf.buf[1]
        len == FromBE(SubSeq(type_buf.buf, 2, 5))
        payload == ReadExact(f, pos + 18, len)
        crc_buf == ReadExact(f, pos + 18 + len, 4)
        next == pos + 22 + len
        rec_doc_v == FromBE(SubSeq(header.buf, 6, 13))
    IN  IF ~header.ok THEN ShortRead(records)
        ELSE IF SubSeq(header.buf, 1, 4) # MAGIC \/ header.buf[5] # VERSION THEN records
        ELSE IF ~type_buf.ok THEN ShortRead(records)
        ELSE IF ~payload.ok THEN ShortRead(records)
        ELSE IF ~crc_buf.ok THEN ShortRead(records)
        ELSE IF BadCrc(crc_buf.buf, Crc32(type_buf.buf \o payload.buf))
          THEN ReplayFrom(f, next, records)
        ELSE IF typ = TYPE_INSERT
          THEN IF len < 8
                 THEN ReplayFrom(f, next, records)
                 ELSE ReplayFrom(f, next, Append(records,
                        InsertRec(rec_doc_v, FromBE(SubSeq(payload.buf, 1, 8)),
                                  SubSeq(payload.buf, 9, len))))
        ELSE IF typ = TYPE_DELETE
          THEN IF len # 16
                 THEN ReplayFrom(f, next, records)
                 ELSE ReplayFrom(f, next, Append(records,
                        DeleteRec(rec_doc_v, FromBE(SubSeq(payload.buf, 1, 8)),
                                  FromBE(SubSeq(payload.buf, 9, 16)))))
        ELSE ReplayFrom(f, next, records)

\* Wal::replay(path) of an existing file with bytes f
Replay(f) == ReplayFrom(f, 0, <<>>)

\* RopeBuffer::delete(start..end)
BufDelete(t, start, end) == SubSeq(t, 1, start) \o SubSeq(t, end + 1, Len(t))

\* what is left of a text after an edit that panicked
Panicked == <<-1>>

\* one replayed record applied to a buffer text (the indices must lie in
\* the text: ropey panics otherwise)
ApplyRecord(t, rec) ==
    IF t = Panicked THEN Panicked
    ELSE IF rec.op = "Insert"
      THEN IF rec.idx <= Len(t) THEN BufInsert(t, rec.idx, rec.bytes) ELSE Panicked
      ELSE IF rec.start <= rec.end /\ rec.end <= Len(t)
             THEN BufDelete(t, rec.start, rec.end)
             ELSE Panicked

\* the records of a replay applied in order
RECURSIVE ApplyAll(_, _)
ApplyAll(t, records) ==
    IF records = <<>> THEN t ELSE ApplyAll(ApplyRecord(t, Head(records)), Tail(records))

\* ---- a buffer, its file and its WAL, driven as in
\* ---- tests/acceptance_pack1.rs (wal_crash_replay_recovers)
\* the contents of the edited file at the start
InitDocs == { <<104, 105>> }

\* the bytes an edit inserts
EditBytes == { <<33>> }

\* the longest buffer text the edits can make
MaxText == 2 + MaxRecs

\* the edits tried: inserts anywhere, deletes of one byte or of a whole
\* text; the doc_v of the n-th edit is n, as in the test
Edits ==
    { InsertRec(v, i, b) : v \in 1..MaxRecs, i \in 0..MaxText, b \in EditBytes }
      \cup { DeleteRec(v, i, i + 1) : v \in 1..MaxRecs, i \in 0..MaxText }
      \cup { DeleteRec(v, 0, n) : v \in 1..MaxRecs, n \in 0..MaxText }

\* an edit applies to a buffer text t when its indices lie in t
Applies(record, t) ==
    IF record.op = "Insert"
      THEN record.idx <= Len(t)
      ELSE record.start <= record.end /\ record.end <= Len(t)

\* records appended without a buffer (Wal::append takes any record): wide
\* fields, bytes that are no text, a reversed range, a doc_v out of order
RawRecords ==
    { InsertRec(65537, 258, <<200, 0>>), DeleteRec(2, 3, 1) }

\* compact_if_needed(threshold)
CompactThresholds == {1, 60}

NoDamage == [kind |-> "none", rec |-> 0]

\* how a record on disk can be invalid
Flaws == {"crc", "magic", "version", "type", "len"}

\* the bytes of a record with a flaw: the last CRC byte flipped (as
\* crc_corruption_detected does), another magic or version, or a record
\* with a valid CRC but an unknown op type or a payload too short for its op
Flawed(record, flaw) ==
    LET good == AppendBytes(record)
    IN  CASE flaw = "crc" -> [good EXCEPT ![Len(good)] = 255 - good[Len(good)]]
          [] flaw = "magic" ->
               RecordBytes(<<71, 87, 65, 77>>, VERSION, record.doc_v, RecordType(record),
                           Payload(record))
          [] flaw = "version" ->
               RecordBytes(MAGIC, 2, record.doc_v, RecordType(record), Payload(record))
          [] flaw = "type" ->
               RecordBytes(MAGIC, VERSION, record.doc_v, 3, Payload(record))
          [] flaw = "len" ->
               RecordBytes(MAGIC, VERSION, record.doc_v, RecordType(record),
                           SubSeq(Payload(record), 1, 4))

\* the file the appends of records leave, with record k flawed (k = 0: none)
RECURSIVE FileOf(_, _, _)
FileOf(records, k, flaw) ==
    IF records = <<>>
      THEN <<>>
      ELSE FileOf(SubSeq(records, 1, Len(records) - 1), k, flaw)
             \o (IF Len(records) = k
                   THEN Flawed(records[Len(records)], flaw)
                   ELSE AppendBytes(records[Len(records)]))

InitWal ==
    /\ walFile = <<>>
    /\ wpc = "closed"
    /\ walDocV = 0
    /\ docFile \in InitDocs
    /\ docBuf = docFile
    /\ appended = <<>>
    /\ preText = docFile
    /\ loggedText = docFile
    /\ synced = TRUE
    /\ damage = NoDamage
    /\ nrecs = 0

\* Wal::new(path): open (or create) the file for appending and take the
\* doc_v of the last record a replay returns
WalNew ==
    /\ wpc = "closed"
    /\ damage = NoDamage
    /\ wpc' = "open"
    /\ walDocV' = IF Replay(walFile) = <<>>
                    THEN 0
                    ELSE Replay(walFile)[Len(Replay(walFile))].doc_v
    /\ UNCHANGED <<avars, svars, uvars, fvars, cvars, dvars, tvars, lvars, kvars, evars>>
    /\ UNCHANGED <<nrecs, walFile, docFile, docBuf, appended, preText, loggedText, synced, damage>>

\* drop(wal)
WalDrop ==
    /\ wpc = "open"
    /\ wpc' = "closed"
    /\ UNCHANGED <<avars, svars, uvars, fvars, cvars, dvars, tvars, lvars, kvars, evars>>
    /\ UNCHANGED <<nrecs, walFile, walDocV, docFile, docBuf, appended, preText, loggedText, synced,
                   damage>>

\* Wal::append(&record): the record's bytes go to the end of the file and
\* the handle takes the record's doc_v
WalAppend(record) ==
    /\ wpc = "open"
    /\ damage = NoDamage
    /\ nrecs < MaxRecs
    /\ nrecs' = nrecs + 1
    /\ walFile' = walFile \o AppendBytes(record)
    /\ walDocV' = record.doc_v
    /\ appended' = Append(appended, record)
    /\ synced' = FALSE
    /\ UNCHANGED <<avars, svars, uvars, fvars, cvars, dvars, tvars, lvars, kvars, evars>>
    /\ UNCHANGED <<wpc, docFile, docBuf, preText, loggedText, damage>>

\* an edit: wal.append(&record), then the same edit on the buffer
Edit(record) ==
    /\ wpc = "open"
    /\ damage = NoDamage
    /\ synced
    /\ nrecs < MaxRecs
    /\ nrecs' = nrecs + 1
    /\ record.doc_v = nrecs + 1
    /\ Applies(record, docBuf)
    /\ walFile' = walFile \o AppendBytes(record)
    /\ walDocV' = record.doc_v
    /\ appended' = Append(appended, record)
    /\ docBuf' = ApplyRecord(docBuf, record)
    /\ loggedText' = docBuf'
    /\ UNCHANGED <<avars, svars, uvars, fvars, cvars, dvars, tvars, lvars, kvars, evars>>
    /\ UNCHANGED <<wpc, docFile, preText, synced, damage>>

\* buf.save_to(&path)
BufSaveTo ==
    /\ damage = NoDamage
    /\ docFile # SaveBytes(docBuf, "Lf")
    /\ docFile' = SaveBytes(docBuf, "Lf")
    /\ UNCHANGED <<avars, svars, uvars, fvars, cvars, dvars, tvars, lvars, kvars, evars>>
    /\ UNCHANGED <<nrecs, walFile, wpc, walDocV, docBuf, appended, preText, loggedText, synced,
                   damage>>

\* wal.compact_if_needed(threshold) on a file of at least threshold bytes
\* (on a smaller file the call does nothing): the file is emptied and the
\* handle's doc_v reset
WalCompact(threshold) ==
    /\ wpc = "open"
    /\ damage = NoDamage
    /\ Len(walFile) >= threshold
    /\ walFile # <<>>
    /\ walFile' = <<>>
    /\ walDocV' = 0
    /\ appended' = <<>>
    /\ preText' = docBuf
    /\ UNCHANGED <<avars, svars, uvars, fvars, cvars, dvars, tvars, lvars, kvars, evars>>
    /\ UNCHANGED <<nrecs, wpc, docFile, docBuf, loggedText, synced, damage>>

\* the lengths a record on disk can be cut by
CutLens == 1..Len(AppendBytes(DeleteRec(0, 0, 0)))

\* with no handle open, the file loses the last k bytes of its last record
Truncate(k) ==
    /\ wpc = "closed"
    /\ damage = NoDamage
    /\ appended # <<>>
    /\ k \in 1..Len(AppendBytes(appended[Len(appended)]))
    /\ walFile' = SubSeq(walFile, 1, Len(walFile) - k)
    /\ damage' = [kind |-> "cut", rec |-> Len(appended)]
    /\ UNCHANGED <<avars, svars, uvars, fvars, cvars, dvars, tvars, lvars, kvars, evars>>
    /\ UNCHANGED <<nrecs, wpc, walDocV, docFile, docBuf, appended, preText, loggedText, synced>>

\* with no handle open, record k of the file becomes invalid
Corrupt(k, flaw) ==
    /\ wpc = "closed"
    /\ damage = NoDamage
    /\ k \in 1..Len(appended)
    /\ walFile' = FileOf(appended, k, flaw)
    /\ damage' = [kind |-> flaw, rec |-> k]
    /\ UNCHANGED <<avars, svars, uvars, fvars, cvars, dvars, tvars, lvars, kvars, evars>>
    /\ UNCHANGED <<nrecs, wpc, walDocV, docFile, docBuf, appended, preText, loggedText, synced>>

(***************************************************************************)
(* Undo stack (crates/core/src/undo.rs) over a buffer text.                *)
(***************************************************************************)
\* Edit::Insert { idx, text }
InsertEdit(idx, text) == [op |-> "Insert", idx |-> idx, text |-> text]

\* Edit::Delete { idx, text }
DeleteEdit(idx, text) == [op |-> "Delete", idx |-> idx, text |-> text]

\* mutant of BufSlice: the removed text is not captured
BufSliceNothing(t, start, end) == <<>>

\* RopeBuffer::slice(start..end)
BufSlice(t, start, end) == SubSeq(t, start + 1, end)

\* mutant of Adjacent: inserts are never coalesced
AdjacentNever(p, idx) == FALSE

\* the guard of the coalescing arm: the top of past is an Insert that ends
\* where the new insert begins
Adjacent(p, idx) ==
    /\ p # <<>>
    /\ p[Len(p)].op = "Insert"
    /\ idx = p[Len(p)].idx + Len(p[Len(p)].text)

\* mutant of CoalescedFuture: the coalescing arm keeps future
CoalescedFutureKept(f) == f

\* self.future.clear() of the coalescing arm
CoalescedFuture(f) == <<>>

\* UndoStack::insert(buf, idx, text) on buffer text b, past p and future f
UndoStackInsert(b, p, f, idx, text) ==
    IF Adjacent(p, idx)
      THEN [ok |-> TRUE,
            buf |-> BufInsert(b, idx, text),
            past |-> [p EXCEPT ![Len(p)].text = @ \o text],
            future |-> CoalescedFuture(f)]
      ELSE [ok |-> TRUE,
            buf |-> BufInsert(b, idx, text),
            past |-> Append(p, InsertEdit(idx, text)),
            future |-> <<>>]

\* UndoStack::delete(buf, start..end)
UndoStackDelete(b, p, f, start, end) ==
    [ok |-> TRUE,
     buf |-> BufDelete(b, start, end),
     past |-> Append(p, DeleteEdit(start, BufSlice(b, start, end))),
     future |-> <<>>]

\* mutant of TextEnd: the range of an inserted text is taken one byte long
TextEndOne(edit) == edit.idx + 1

\* *idx + text.len(): where the text of an edit ends in the buffer
TextEnd(edit) == edit.idx + Len(edit.text)

\* UndoStack::undo(buf)
UndoStackUndo(b, p, f) ==
    IF p = <<>>
      THEN [ok |-> FALSE, buf |-> b, past |-> p, future |-> f]
      ELSE LET edit == p[Len(p)]
           IN  [ok |-> TRUE,
                buf |-> IF edit.op = "Insert"
                          THEN BufDelete(b, edit.idx, TextEnd(edit))
                          ELSE BufInsert(b, edit.idx, edit.text),
                past |-> SubSeq(p, 1, Len(p) - 1),
                future |-> Append(f, edit)]

\* UndoStack::redo(buf)
UndoStackRedo(b, p, f) ==
    IF f = <<>>
      THEN [ok |-> FALSE, buf |-> b, past |-> p, future |-> f]
      ELSE LET edit == f[Len(f)]
           IN  [ok |-> TRUE,
                buf |-> IF edit.op = "Insert"
                          THEN BufInsert(b, edit.idx, edit.text)
                          ELSE BufDelete(b, edit.idx, TextEnd(edit)),
                past |-> Append(p, edit),
                future |-> SubSeq(f, 1, Len(f) - 1)]

\* the buffer texts an undo stack starts on
UndoTexts == { <<"a", "b">> }

\* the texts inserted through the undo stack
UndoInserts == { <<"x">>, <<"y", "z">> }

\* the lengths of the ranges deleted through the undo stack
DeleteLens == {0, 1, 2}

\* the longest buffer text the calls can make
MaxUndoText == 2 + 2 * MaxOps

NoOp == [op |-> "-", idx |-> 0, text |-> <<>>, ok |-> FALSE, coalesced |-> FALSE, dropped |-> 0]

NoChain == [stage |-> 0, text |-> <<>>, np |-> 0, nf |-> 0]

InitUndo ==
    /\ ubuf \in UndoTexts
    /\ past = <<>>
    /\ future = <<>>
    /\ base = <<>>
    /\ lastOp = NoOp
    /\ chain = NoChain
    /\ nops = 0

\* stack.insert(&mut buf, idx, text) with idx inside the buffer
CallInsert(idx, text) ==
    LET r == UndoStackInsert(ubuf, past, future, idx, text)
    IN  /\ nops < MaxOps
        /\ idx <= Len(ubuf)
        /\ ubuf' = r.buf
        /\ past' = r.past
        /\ future' = r.future
        /\ base' = IF Len(r.past) = Len(past) THEN base ELSE Append(base, ubuf)
        /\ lastOp' = [op |-> "insert", idx |-> idx, text |-> text, ok |-> TRUE,
                      coalesced |-> Len(r.past) = Len(past), dropped |-> Len(future)]
        /\ chain' = [stage |-> 1, text |-> r.buf, np |-> Len(r.past), nf |-> Len(r.future)]
        /\ nops' = nops + 1
        /\ UNCHANGED <<avars, svars, wvars, fvars, cvars, dvars, tvars, lvars, kvars, evars>>

\* stack.delete(&mut buf, start..end) with the range inside the buffer
CallDelete(start, end) ==
    LET r == UndoStackDelete(ubuf, past, future, start, end)
    IN  /\ nops < MaxOps
        /\ start <= end
        /\ end <= Len(ubuf)
        /\ ubuf' = r.buf
        /\ past' = r.past
        /\ future' = r.future
        /\ base' = Append(base, ubuf)
        /\ lastOp' = [op |-> "delete", idx |-> start, text |-> BufSlice(ubuf, start, end),
                      ok |-> TRUE, coalesced |-> FALSE, dropped |-> Len(future)]
        /\ chain' = [stage |-> 1, text |-> r.buf, np |-> Len(r.past), nf |-> Len(r.future)]
        /\ nops' = nops + 1
        /\ UNCHANGED <<avars, svars, wvars, fvars, cvars, dvars, tvars, lvars, kvars, evars>>

\* stack.undo(&mut buf)
CallUndo ==
    LET r == UndoStackUndo(ubuf, past, future)
    IN  /\ nops < MaxOps
        /\ ubuf' = r.buf
        /\ past' = r.past
        /\ future' = r.future
        /\ base' = IF r.ok THEN SubSeq(base, 1, Len(base) - 1) ELSE base
        /\ lastOp' = [NoOp EXCEPT !.op = "undo", !.ok = r.ok]
        /\ chain' = IF r.ok /\ chain.stage = 1 THEN [chain EXCEPT !.stage = 2] ELSE NoChain
        /\ nops' = nops + 1
        /\ UNCHANGED <<avars, svars, wvars, fvars, cvars, dvars, tvars, lvars, kvars, evars>>

\* stack.redo(&mut buf)
CallRedo ==
    LET r == UndoStackRedo(ubuf, past, future)
    IN  /\ nops < MaxOps
        /\ ubuf' = r.buf
        /\ past' = r.past
        /\ future' = r.future
        /\ base' = IF r.ok THEN Append(base, ubuf) ELSE base
        /\ lastOp' = [NoOp EXCEPT !.op = "redo", !.ok = r.ok]
        /\ chain' = IF r.ok /\ chain.stage = 2 THEN [chain EXCEPT !.stage = 3] ELSE NoChain
        /\ nops' = nops + 1
        /\ UNCHANGED <<avars, svars, wvars, fvars, cvars, dvars, tvars, lvars, kvars, evars>>

(***************************************************************************)
(* A RopeBuffer opened on a file and saved back (crates/core/src/buffer.rs) *)
(* through atomic_write (crates/core/src/fs.rs).                           *)
(***************************************************************************)
\* the files a buffer is opened on: every byte string up to MaxFileLen
FileBytes == { "h", "CR", "LF", "FF" }

Files == UNION { [1..n -> FileBytes] : n \in 0..MaxFileLen }

NoRope == [text |-> <<>>, has_invalid |-> FALSE, eol |-> "-"]

\* where atomic_write can fail or the process can die
AwSteps == { "create", "write", "sync", "rename", "opendir", "syncdir" }

\* f.write_all(bytes) has written everything
\* mutant of WriteAllDone: one write call, which may be short
WriteAllShort(t, c) == TRUE

WriteAllDone(t, c) == t = c

InitFile ==
    /\ target \in Files
    /\ original = <<>>
    /\ rope = NoRope
    /\ edited = FALSE
    /\ fpc = "closed"
    /\ contents = <<>>
    /\ old = <<>>
    /\ tmp = NotFound

\* RopeBuffer::open(path)
BufOpen ==
    /\ fpc \in { "closed", "crashed" }
    /\ rope' = OpenBuffer(target)
    /\ original' = target
    /\ edited' = FALSE
    /\ fpc' = "idle"
    /\ UNCHANGED <<target, contents, old, tmp>>
    /\ UNCHANGED <<avars, svars, wvars, uvars, cvars, dvars, tvars, lvars, kvars, evars>>

\* RopeBuffer::insert(byte_idx, text)
BufEdit ==
    /\ fpc \in { "idle", "ok", "err" }
    /\ ~edited
    /\ Len(rope.text) <= MaxFileLen
    /\ rope' = [rope EXCEPT !.text = BufInsert(@, 0, <<"x">>)]
    /\ edited' = TRUE
    /\ UNCHANGED <<target, original, fpc, contents, old, tmp>>
    /\ UNCHANGED <<avars, svars, wvars, uvars, cvars, dvars, tvars, lvars, kvars, evars>>

\* RopeBuffer::save_to(path), up to the call of atomic_write(path, text.as_bytes())
SaveTo ==
    /\ fpc \in { "idle", "ok", "err" }
    /\ contents' = SaveBytes(rope.text, rope.eol)
    /\ old' = target
    /\ tmp' = NotFound
    /\ fpc' = "create"
    /\ UNCHANGED <<target, original, rope, edited>>
    /\ UNCHANGED <<avars, svars, wvars, uvars, cvars, dvars, tvars, lvars, kvars, evars>>

\* OpenOptions::new().write(true).create_new(true).open(&tmp)
AwCreate ==
    /\ fpc = "create"
    /\ tmp' = <<>>
    /\ fpc' = "write"
    /\ UNCHANGED <<target, original, rope, edited, contents, old>>
    /\ UNCHANGED <<avars, svars, wvars, uvars, cvars, dvars, tvars, lvars, kvars, evars>>

\* f.write_all(bytes): one more byte reaches the temp file, or the call returns
AwWrite ==
    /\ fpc = "write"
    /\ \/ /\ Len(tmp) < Len(contents)
          /\ tmp' = Append(tmp, contents[Len(tmp) + 1])
          /\ fpc' = "write"
       \/ /\ WriteAllDone(tmp, contents)
          /\ tmp' = tmp
          /\ fpc' = "sync"
    /\ UNCHANGED <<target, original, rope, edited, contents, old>>
    /\ UNCHANGED <<avars, svars, wvars, uvars, cvars, dvars, tvars, lvars, kvars, evars>>

\* f.sync_all()
AwSync ==
    /\ fpc = "sync"
    /\ fpc' = "rename"
    /\ UNCHANGED <<target, original, rope, edited, contents, old, tmp>>
    /\ UNCHANGED <<avars, svars, wvars, uvars, cvars, dvars, tvars, lvars, kvars, evars>>

\* fs::rename(&tmp, path)
AwRename ==
    /\ fpc = "rename"
    /\ target' = tmp
    /\ tmp' = NotFound
    /\ fpc' = "opendir"
    /\ UNCHANGED <<original, rope, edited, contents, old>>
    /\ UNCHANGED <<avars, svars, wvars, uvars, cvars, dvars, tvars, lvars, kvars, evars>>

\* File::open(dir)
AwOpenDir ==
    /\ fpc = "opendir"
    /\ fpc' = "syncdir"
    /\ UNCHANGED <<target, original, rope, edited, contents, old, tmp>>
    /\ UNCHANGED <<avars, svars, wvars, uvars, cvars, dvars, tvars, lvars, kvars, evars>>

\* dirf.sync_all(), and Ok(())
AwSyncDir ==
    /\ fpc = "syncdir"
    /\ fpc' = "ok"
    /\ UNCHANGED <<target, original, rope, edited, contents, old, tmp>>
    /\ UNCHANGED <<avars, svars, wvars, uvars, cvars, dvars, tvars, lvars, kvars, evars>>

\* a step of atomic_write returns an io::Error, which `?` hands to the caller
AwFail ==
    /\ fpc \in AwSteps
    /\ fpc' = "err"
    /\ UNCHANGED <<target, original, rope, edited, contents, old, tmp>>
    /\ UNCHANGED <<avars, svars, wvars, uvars, cvars, dvars, tvars, lvars, kvars, evars>>

\* the process dies inside atomic_write; a rename whose directory entry was
\* not yet synced may or may not have reached the disk
AwCrash(kept) ==
    /\ fpc \in AwSteps
    /\ kept = FALSE => fpc \in { "opendir", "syncdir" }
    /\ target' = IF kept THEN target ELSE old
    /\ tmp' = IF kept THEN tmp ELSE contents
    /\ rope' = NoRope
    /\ fpc' = "crashed"
    /\ UNCHANGED <<original, edited, contents, old>>
    /\ UNCHANGED <<avars, svars, wvars, uvars, cvars, dvars, tvars, lvars, kvars, evars>>

(***************************************************************************)
(* The frame composers: compose (crates/core/src/viewport.rs) and          *)
(* compose_hex (crates/core/src/hex.rs).  Texts are sequences of bytes:    *)
(* 10 is LF, 32 a space, 97 'a', and 239 191 189 is U+FFFD in UTF-8.       *)
(***************************************************************************)
Min(a, b) == IF a < b THEN a ELSE b

\* `as u16`
U16(n) == n % 65536

\* the lines of a rope, each with its line break: Rope::line(i) is SplitLines(t)[i + 1]
RECURSIVE SplitLines(_)
SplitLines(t) ==
    IF \A i \in 1..Len(t) : t[i] # 10 THEN <<t>>
    ELSE LET k == CHOOSE i \in 1..Len(t) : t[i] = 10 /\ \A j \in 1..(i - 1) : t[j] # 10
         IN  <<SubSeq(t, 1, k)>> \o SplitLines(SubSeq(t, k + 1, Len(t)))

\* RopeBuffer::slice_lines(first_line, max_lines): the lines without their '\n'
SliceLines(t, first_line, max_lines) ==
    LET all == SplitLines(t)
        hi == Min(first_line + max_lines, Len(all))
    IN  [j \in 1..(IF hi > first_line THEN hi - first_line ELSE 0) |->
           LET line == all[first_line + j] IN
           IF line # <<>> /\ line[Len(line)] = 10 THEN SubSeq(line, 1, Len(line) - 1) ELSE line]

\* str::is_char_boundary(k): the byte behind k is not a continuation byte
IsCharBoundary(line, k) == k = 0 \/ k = Len(line) \/ line[k + 1] \notin 128..191

\* mutant of HSliceEnd: the slice runs to the end of the line
HSliceEndOfLine(line, hscroll, cols) == Len(line)

\* (hscroll + cols).min(line.len())
HSliceEnd(line, hscroll, cols) == Min(hscroll + cols, Len(line))

\* compose: the horizontal slice line[hscroll..end] of one line; slicing
\* inside a character panics
HSlice(line, hscroll, cols) ==
    IF hscroll < Len(line)
    THEN LET end == HSliceEnd(line, hscroll, cols) IN
         IF IsCharBoundary(line, hscroll) /\ IsCharBoundary(line, end)
         THEN SubSeq(line, hscroll + 1, end)
         ELSE Panicked
    ELSE <<>>

\* line.trim_end_matches([' ', '\t'])
RECURSIVE TrimEnd(_)
TrimEnd(line) ==
    IF line # <<>> /\ line[Len(line)] \in { 32, 9 }
    THEN TrimEnd(SubSeq(line, 1, Len(line) - 1))
    ELSE line

StyleSpan(row, start_col, end_col, class) ==
    [row |-> row, start_col |-> start_col, end_col |-> end_col, class |-> class]

\* line.chars().enumerate(): the index of the character that starts at byte i
CharIndex(line, i) == Cardinality({ j \in 1..(i - 1) : line[j] \notin 128..191 })

\* compose: the "ws" and "err" spans of one visible line
RowSpans(row, line) ==
    LET trimmed == TrimEnd(line)
        ws == IF Len(trimmed) < Len(line)
              THEN <<StyleSpan(U16(row), U16(Len(trimmed)), U16(Len(line)), "ws")>>
              ELSE <<>>
        at == SelectSeq([i \in 1..Len(line) |-> i],
                        LAMBDA i : i + 2 <= Len(line) /\ line[i] = 239
                                   /\ line[i + 1] = 191 /\ line[i + 2] = 189)
    IN  ws \o [k \in 1..Len(at) |->
                 StyleSpan(U16(row), U16(CharIndex(line, at[k])),
                           U16(CharIndex(line, at[k]) + 1), "err")]

\* compose: for (row, line) in lines.iter().enumerate()
RECURSIVE LineSpans(_, _)
LineSpans(lines, row) ==
    IF row >= Len(lines) THEN <<>>
    ELSE RowSpans(row, lines[row + 1]) \o LineSpans(lines, row + 1)

\* RopeBuffer::byte_to_line_col(byte_idx)
ByteToLineCol(t, byte_idx) ==
    LET line == Cardinality({ j \in 1..byte_idx : t[j] = 10 })
        line_start == IF line = 0 THEN 0
                      ELSE CHOOSE k \in 1..byte_idx :
                             t[k] = 10 /\ \A j \in (k + 1)..byte_idx : t[j] # 10
    IN  [line |-> line, col |-> byte_idx - line_start]

\* compose: the "sel" span of one line of the selection, if it has one
SelSpan(t, line, s, e, first_line, rows, cols, hscroll) ==
    IF line < first_line \/ line >= first_line + rows THEN <<>>
    ELSE LET start == IF line = s.line THEN s.col ELSE 0
             whole == SliceLines(t, line, 1)
             end == IF line = e.line THEN e.col
                    ELSE IF whole = <<>> THEN 0 ELSE Len(whole[1])
             adj_start == IF start > hscroll THEN start - hscroll ELSE 0
             adj_end == IF end > hscroll THEN end - hscroll ELSE 0
         IN  IF end > start /\ adj_end > 0 /\ adj_start < cols
             THEN <<StyleSpan(U16(line - first_line), U16(Min(adj_start, cols)),
                              U16(Min(adj_end, cols)), "sel")>>
             ELSE <<>>

\* compose: for line in start_line..=end_line
RECURSIVE SelSpans(_, _, _, _, _, _, _, _)
SelSpans(t, line, s, e, first_line, rows, cols, hscroll) ==
    IF line > e.line THEN <<>>
    ELSE SelSpan(t, line, s, e, first_line, rows, cols, hscroll)
           \o SelSpans(t, line + 1, s, e, first_line, rows, cols, hscroll)

\* compose: the two `continue` tests on a cursor
CursorVisible(c, first_line, rows, cols, hscroll) ==
    /\ ~(c.line < first_line \/ c.line >= first_line + rows)
    /\ ~(c.col < hscroll \/ c.col >= hscroll + cols)

NoSelection == [start |-> -1, end |-> -1]

\* compose(buf, first_line, rows, cols, hscroll, cursors, selection)
Compose(t, first_line, rows, cols, hscroll, cursors, sel) ==
    LET lines == [j \in 1..Len(SliceLines(t, first_line, rows)) |->
                    HSlice(SliceLines(t, first_line, rows)[j], hscroll, cols)]
        shown == SelectSeq(cursors,
                           LAMBDA c : CursorVisible(c, first_line, rows, cols, hscroll))
    IN  IF \E j \in 1..Len(lines) : lines[j] = Panicked THEN [kind |-> "panic"]
        ELSE [kind |-> "editor",
              first_line |-> first_line,
              lines |-> lines,
              spans |-> LineSpans(lines, 0)
                          \o (IF sel = NoSelection THEN <<>>
                              ELSE SelSpans(t, ByteToLineCol(t, sel.start).line,
                                            ByteToLineCol(t, sel.start),
                                            ByteToLineCol(t, sel.end),
                                            first_line, rows, cols, hscroll)),
              cursors |-> [k \in 1..Len(shown) |->
                             [row |-> U16(shown[k].line - first_line),
                              col |-> U16(shown[k].col - hscroll)]]]

\* format!("{:02X}", b) as two ASCII characters
HexByte(b) ==
    LET digit(d) == IF d < 10 THEN 48 + d ELSE 55 + d
    IN  <<digit(b \div 16), digit(b % 16)>>

\* compose_hex: hex_part, the sixteen cells of a row from cell i on
RECURSIVE HexPart(_, _, _, _)
HexPart(bytes, start, end, i) ==
    IF i > 15 THEN <<>>
    ELSE (IF start + i < end THEN HexByte(bytes[start + i + 1]) ELSE <<32, 32>>)
           \o (IF i # 15 THEN <<32>> ELSE <<>>)
           \o (IF i = 7 THEN <<32>> ELSE <<>>)
           \o HexPart(bytes, start, end, i + 1)

\* compose_hex: line_text of one row, format!("{hex_part} |{ascii_part}")
HexLine(bytes, row) ==
    LET start == row * 16
        end == Min(start + 16, Len(bytes))
        hex_part == HexPart(bytes, start, end, 0)
        padded == hex_part \o [k \in 1..(IF Len(hex_part) < 48 THEN 48 - Len(hex_part) ELSE 0)
                                 |-> 32]
        ascii_part == [k \in 1..(end - start) |->
                         IF bytes[start + k] \in 32..126 THEN bytes[start + k] ELSE 46]
    IN  padded \o <<32, 124>> \o ascii_part

\* compose_hex(bytes, first_row, cols, rows, doc_v, status_left, status_right)
HexFrame(bytes, first_row, cols, rows) ==
    LET total_rows == (Len(bytes) + 15) \div 16
        hi == Min(first_row + rows, total_rows)
    IN  [kind |-> "hex",
         first_line |-> first_row,
         lines |-> [j \in 1..(IF hi > first_row THEN hi - first_row ELSE 0) |->
                      HexLine(bytes, first_row + j - 1)],
         spans |-> <<>>,
         cursors |-> <<>>]

\* the buffer texts and raw files the composers are applied to
ViewTexts ==
    { <<>>,
      <<97, 32, 10, 32, 97, 32, 32>>,
      <<239, 191, 189, 97, 10, 97>>,
      <<32, 239, 191, 189, 9, 10, 10>>,
      <<104, 101, 108, 108, 111, 0, 119, 111, 114, 108, 100, 255, 10, 97, 98, 99, 100>> }

\* viewports: first_line, rows and hscroll, and cols (80 is the width the tests use)
Views == 0..MaxView

Cols == 0..(MaxView + 1) \cup { 80 }

\* cursors: &[(usize, usize)], none or one (line, col)
CursorLists ==
    { <<>> } \cup { <<[line |-> l, col |-> c]>> : l \in Views, c \in 0..(MaxView + 1) }

\* selection: Option<Range<usize>>
Selections ==
    { NoSelection }
      \cup { r \in [start : 0..7, end : 0..7] : r.start <= r.end }

NoView == [kind |-> "-"]

NoArgs == [first_line |-> 0, rows |-> 0, cols |-> 0, hscroll |-> 0]

InitCompose ==
    /\ vtext \in ViewTexts
    /\ vargs = NoArgs
    /\ vframe = NoView

\* a call of compose on the buffer, with a selection inside the text
CallCompose ==
    /\ vframe = NoView
    /\ \E first_line \in Views, rows \in Views, cols \in Cols, hscroll \in Views,
          cursors \in CursorLists, sel \in Selections :
         /\ sel # NoSelection => sel.end <= Len(vtext)
         /\ vargs' = [first_line |-> first_line, rows |-> rows, cols |-> cols,
                      hscroll |-> hscroll]
         /\ vframe' = Compose(vtext, first_line, rows, cols, hscroll, cursors, sel)
    /\ UNCHANGED vtext
    /\ UNCHANGED <<avars, svars, wvars, uvars, fvars, dvars, tvars, lvars, kvars, evars>>

\* a call of compose_hex on the raw bytes
CallComposeHex ==
    /\ vframe = NoView
    /\ \E first_row \in Views, cols \in Cols, rows \in Views :
         /\ vargs' = [first_line |-> first_row, rows |-> rows, cols |-> cols, hscroll |-> 0]
         /\ vframe' = HexFrame(vtext, first_row, cols, rows)
    /\ UNCHANGED vtext
    /\ UNCHANGED <<avars, svars, wvars, uvars, fvars, dvars, tvars, lvars, kvars, evars>>

(***************************************************************************)
(* Debouncer (crates/core/src/debounce.rs): call aborts the task of the    *)
(* previous call and spawns a task that sleeps for delay and then runs the *)
(* action.  Time is a clock of ticks; a sleep never ends early.            *)
(***************************************************************************)
Calls == 1..MaxCalls

NoTask == [st |-> "none", called |-> 0, wake |-> 0]

\* JoinHandle::abort on a task in state st: a task that has not finished is
\* cancelled where it stands, before the action
\* mutant of Abort: the previous task is not aborted
AbortMissing(st) == st

Abort(st) == IF st \in { "spawned", "sleeping" } THEN "cancelled" ELSE st

\* tasks whose action is still to run
Scheduled == { c \in Calls : dtask[c].st \in { "spawned", "sleeping" } }

\* Debouncer::new(delay)
InitDebounce ==
    /\ delay \in { 1, 2 }
    /\ handle = 0
    /\ dtask = [c \in Calls |-> NoTask]
    /\ now = 0
    /\ ran = <<>>
    /\ burst = TRUE

\* Debouncer::call(action): abort the task of self.handle, spawn the new one
DebouncerCall ==
    /\ handle < MaxCalls
    /\ dtask' = [c \in Calls |->
                   IF c = handle + 1 THEN [st |-> "spawned", called |-> now, wake |-> 0]
                   ELSE IF c = handle THEN [dtask[c] EXCEPT !.st = Abort(@)]
                   ELSE dtask[c]]
    /\ handle' = handle + 1
    /\ burst' = (burst /\ (handle = 0 \/ now < dtask[handle].called + delay))
    /\ UNCHANGED <<delay, now, ran>>
    /\ UNCHANGED <<avars, svars, wvars, uvars, fvars, cvars, tvars, lvars, kvars, evars>>

\* the spawned task is polled for the first time: sleep(delay) starts
TaskSleep(c) ==
    /\ dtask[c].st = "spawned"
    /\ dtask' = [dtask EXCEPT ![c].st = "sleeping", ![c].wake = now + delay]
    /\ UNCHANGED <<delay, handle, now, ran, burst>>
    /\ UNCHANGED <<avars, svars, wvars, uvars, fvars, cvars, tvars, lvars, kvars, evars>>

\* sleep(delay).await completes, at its deadline or later, and action() runs
TaskAction(c) ==
    /\ dtask[c].st = "sleeping"
    /\ now >= dtask[c].wake
    /\ dtask' = [dtask EXCEPT ![c].st = "done"]
    /\ ran' = Append(ran, [call |-> c, at |-> now])
    /\ UNCHANGED <<delay, handle, now, burst>>
    /\ UNCHANGED <<avars, svars, wvars, uvars, fvars, cvars, tvars, lvars, kvars, evars>>

\* time passes
Tick ==
    /\ now < MaxTime
    /\ now' = now + 1
    /\ UNCHANGED <<delay, handle, dtask, ran, burst>>
    /\ UNCHANGED <<avars, svars, wvars, uvars, fvars, cvars, tvars, lvars, kvars, evars>>

(***************************************************************************)
(* The legacy WebSocket server (ghostwriter/src/network/server.rs).        *)
(***************************************************************************)
\* GhostwriterServer::bind
InitLegacy ==
    /\ client_active = FALSE
    /\ held = FALSE
    /\ runPc = "accept"
    /\ hpc = "none"
    /\ nconn = 0
    /\ mine = FALSE
    /\ ended = "none"
    /\ replies = <<>>

\* run: listener.accept().await? and the test of client_active; a free
\* server sets the flag and spawns handle_client
LegacyAccept(ok) ==
    /\ runPc = "accept"
    /\ nconn < MaxClients
    /\ IF ~ok
         THEN /\ runPc' = "accept_failed"
              /\ UNCHANGED <<client_active, hpc, nconn, mine>>
         ELSE /\ nconn' = nconn + 1
              /\ IF client_active
                   THEN /\ runPc' = "busy_handshake"
                        /\ UNCHANGED <<client_active, hpc, mine>>
                   ELSE /\ client_active' = TRUE
                        /\ hpc' = "handshake"
                        /\ mine' = FALSE
                        /\ UNCHANGED runPc
    /\ UNCHANGED <<held, ended, replies>>
    /\ UNCHANGED <<avars, svars, wvars, uvars, fvars, cvars, dvars, tvars, kvars, evars>>

\* run, busy branch: accept_async(stream).await?
LegacyBusyHandshake(ok) ==
    /\ runPc = "busy_handshake"
    /\ runPc' = IF ok THEN "busy_send" ELSE "handshake_failed"
    /\ UNCHANGED <<client_active, held, hpc, nconn, mine, ended, replies>>
    /\ UNCHANGED <<avars, svars, wvars, uvars, fvars, cvars, dvars, tvars, kvars, evars>>

\* run, busy branch: ws.send(server busy).await?, ws.close, continue
LegacyBusySend(ok) ==
    /\ runPc = "busy_send"
    /\ runPc' = IF ok THEN "accept" ELSE "send_failed"
    /\ UNCHANGED <<client_active, held, hpc, nconn, mine, ended, replies>>
    /\ UNCHANGED <<avars, svars, wvars, uvars, fvars, cvars, dvars, tvars, kvars, evars>>

\* the spawned task after handle_client returned: active.store(false)
HandlerReturned(how) ==
    /\ hpc' = "none"
    /\ client_active' = FALSE
    /\ ended' = how

\* handle_client: accept_async(stream).await?
LegacyHandshake(ok) ==
    /\ hpc = "handshake"
    /\ IF ok THEN hpc' = "auth" /\ UNCHANGED <<client_active, ended>>
       ELSE HandlerReturned("io")
    /\ UNCHANGED <<held, runPc, nconn, mine, replies>>
    /\ UNCHANGED <<avars, svars, wvars, uvars, fvars, cvars, dvars, tvars, kvars, evars>>

\* handle_client: the authentication exchange before the message loop
LegacyAuth(how) ==
    /\ hpc = "auth"
    /\ IF how = "none" THEN hpc' = "loop" /\ UNCHANGED <<client_active, ended>>
       ELSE HandlerReturned(how)
    /\ UNCHANGED <<held, runPc, nconn, mine, replies>>
    /\ UNCHANGED <<avars, svars, wvars, uvars, fvars, cvars, dvars, tvars, kvars, evars>>

\* handle_client, message loop: a LockRequest; the reply is "already locked"
\* when the shared option is Some, else FileLock::acquire fills it; sending
\* the reply can fail
LegacyLockRequest(sent) ==
    /\ hpc = "loop"
    /\ Len(replies) < MaxLockReqs
    /\ held' = TRUE
    /\ mine' = (mine \/ ~held)
    /\ IF sent
         THEN /\ replies' = Append(replies, [success |-> ~held, holder |-> mine, conn |-> nconn])
              /\ UNCHANGED <<hpc, client_active, ended>>
         ELSE /\ HandlerReturned("send")
              /\ UNCHANGED replies
    /\ UNCHANGED <<runPc, nconn>>
    /\ UNCHANGED <<avars, svars, wvars, uvars, fvars, cvars, dvars, tvars, kvars, evars>>

\* handle_client, message loop: msg? fails, or the text is not a Message
\* (serde_json::from_str(&txt)?): the function returns the error at once
LegacyLoopError(how) ==
    /\ hpc = "loop"
    /\ how \in { "io", "parse" }
    /\ HandlerReturned(how)
    /\ UNCHANGED <<held, runPc, nconn, mine, replies>>
    /\ UNCHANGED <<avars, svars, wvars, uvars, fvars, cvars, dvars, tvars, kvars, evars>>

\* handle_client, message loop: a Close frame or the end of the stream
\* leaves the loop, and the code after it empties the shared option
LegacyLoopClose ==
    /\ hpc = "loop"
    /\ held' = FALSE
    /\ HandlerReturned("close")
    /\ UNCHANGED <<runPc, nconn, mine, replies>>
    /\ UNCHANGED <<avars, svars, wvars, uvars, fvars, cvars, dvars, tvars, kvars, evars>>

(***************************************************************************)
(* The legacy client (ghostwriter/src/network/client.rs).                  *)
(***************************************************************************)
\* GhostwriterClient.backoff, in milliseconds
Backoff == 100

NoCall == [op |-> "none", msg |-> 0]

\* GhostwriterClient::new
InitClient ==
    /\ cws = FALSE
    /\ status = "Disconnected"
    /\ queue = <<>>
    /\ cpc = "idle"
    /\ call = NoCall
    /\ cdelay = 0
    /\ attempts = 0
    /\ flushing = <<>>
    /\ nextId = 1
    /\ sentLog = <<>>
    /\ enqueued = {}

\* ensure_connection returned Ok to connect/recover (which return it) or to
\* request (which goes on to send its message)
EnsureOk(c) ==
    /\ cpc' = IF c.op = "request" THEN "send" ELSE "idle"
    /\ UNCHANGED enqueued

\* ensure_connection returned Err: connect/recover return it, request pushes
\* its message onto the queue (given here as q) and returns it
EnsureErr(c, q) ==
    /\ cpc' = "idle"
    /\ queue' = IF c.op = "request" THEN Append(q, c.msg) ELSE q
    /\ enqueued' = IF c.op = "request" THEN enqueued \cup { c.msg } ELSE enqueued

\* connect / recover / request up to the first await of ensure_connection
ClientCall(op) ==
    /\ cpc = "idle"
    /\ nextId <= MaxReqs
    /\ LET c == [op |-> op, msg |-> IF op = "request" THEN nextId ELSE 0] IN
         /\ call' = c
         /\ nextId' = nextId + 1
         /\ attempts' = 0
         /\ IF cws
              THEN /\ EnsureOk(c)
                   /\ UNCHANGED <<status, cdelay>>
              ELSE /\ status' = "Reconnecting"
                   /\ cdelay' = Backoff
                   /\ cpc' = "connect"
                   /\ UNCHANGED enqueued
    /\ UNCHANGED <<cws, queue, flushing, sentLog>>
    /\ UNCHANGED <<avars, svars, wvars, uvars, fvars, cvars, dvars, tvars, lvars, evars>>

\* ensure_connection: connect_async(&self.url).await and its Err arm
ClientConnect(ok) ==
    /\ cpc = "connect"
    /\ attempts' = attempts + 1
    /\ IF ok
         THEN /\ cpc' = "auth"
              /\ UNCHANGED <<status, queue, cdelay, enqueued>>
         ELSE /\ cdelay' = Min(cdelay * 2, 1600)
              /\ IF cdelay' > 800
                   THEN /\ status' = "Disconnected"
                        /\ EnsureErr(call, queue)
                   ELSE UNCHANGED <<status, queue, cpc, enqueued>>
    /\ UNCHANGED <<cws, call, flushing, nextId, sentLog>>
    /\ UNCHANGED <<avars, svars, wvars, uvars, fvars, cvars, dvars, tvars, lvars, evars>>

\* ensure_connection: the AuthRequest is sent and the answer read; on
\* success flush_queue takes the queue
ClientAuth(res) ==
    /\ cpc = "auth"
    /\ IF res = "success"
         THEN /\ cws' = TRUE
              /\ status' = "Connected"
              /\ flushing' = queue
              /\ queue' = <<>>
              /\ IF queue = <<>> THEN EnsureOk(call)
                 ELSE cpc' = "flush" /\ UNCHANGED enqueued
         ELSE /\ EnsureErr(call, queue)
              /\ UNCHANGED <<cws, status, flushing>>
    /\ UNCHANGED <<call, cdelay, attempts, nextId, sentLog>>
    /\ UNCHANGED <<avars, svars, wvars, uvars, fvars, cvars, dvars, tvars, lvars, evars>>

\* flush_queue: one turn of the loop over queued, ws.send(..).await? and
\* the read of one answer
ClientFlush(ok) ==
    /\ cpc = "flush"
    /\ IF ok
         THEN /\ sentLog' = Append(sentLog, Head(flushing))
              /\ flushing' = Tail(flushing)
              /\ IF Tail(flushing) = <<>> THEN EnsureOk(call)
                 ELSE UNCHANGED <<cpc, enqueued>>
              /\ UNCHANGED queue
         ELSE /\ flushing' = <<>>
              /\ EnsureErr(call, queue)
              /\ UNCHANGED sentLog
    /\ UNCHANGED <<cws, status, call, cdelay, attempts, nextId>>
    /\ UNCHANGED <<avars, svars, wvars, uvars, fvars, cvars, dvars, tvars, lvars, evars>>

\* request: ws.send(msg).await?
ClientSend(ok) ==
    /\ cpc = "send"
    /\ cpc' = IF ok THEN "wait" ELSE "idle"
    /\ sentLog' = IF ok THEN Append(sentLog, call.msg) ELSE sentLog
    /\ UNCHANGED <<cws, status, queue, call, cdelay, attempts, flushing, nextId, enqueued>>
    /\ UNCHANGED <<avars, svars, wvars, uvars, fvars, cvars, dvars, tvars, lvars, evars>>

\* request: the answer read under the timeout; anything but an answer drops
\* the socket and pushes the message onto the queue
ClientResponse(res) ==
    /\ cpc = "wait"
    /\ cpc' = "idle"
    /\ IF res \in { "match", "mismatch" }
         THEN UNCHANGED <<cws, status, queue, enqueued>>
         ELSE /\ cws' = FALSE
              /\ status' = "Disconnected"
              /\ queue' = Append(queue, call.msg)
              /\ enqueued' = enqueued \cup { call.msg }
    /\ UNCHANGED <<call, cdelay, attempts, flushing, nextId, sentLog>>
    /\ UNCHANGED <<avars, svars, wvars, uvars, fvars, cvars, dvars, tvars, lvars, evars>>

(***************************************************************************)
(* The legacy editor's UndoStack (ghostwriter/src/editor/undo.rs).  A      *)
(* record is an Insert of one character; the editor edits the rope and     *)
(* then pushes the record, as the tests of the module do.                  *)
(***************************************************************************)
\* mutant of StackPush: nothing is evicted
StackPushKeepAll(st, record) ==
    LET kept == SubSeq(st.entries, 1, Min(st.position, Len(st.entries)))
    IN  [entries |-> Append(kept, record), position |-> Len(kept) + 1]

\* UndoStack::push
StackPush(st, record) ==
    LET kept == IF st.position < Len(st.entries)
                THEN SubSeq(st.entries, 1, st.position) ELSE st.entries
        drop == IF Len(kept) >= st.limit THEN Len(kept) - st.limit + 1 ELSE 0
    IN  [entries |-> Append(SubSeq(kept, drop + 1, Len(kept)), record),
         position |-> Len(kept) - drop + 1]

\* UndoStack::new(limit)
InitEditorUndo ==
    /\ limit \in 1..MaxLimit
    /\ entries = <<>>
    /\ position = 0
    /\ erope = <<>>
    /\ ecursor = 0
    /\ npush = 0

\* the editor inserts a character at index and pushes its record
EditorPush(index) ==
    /\ npush < MaxPushes
    /\ index <= Len(erope)
    /\ LET record == [index |-> index, text |-> npush + 1,
                      before |-> ecursor, after |-> index + 1]
           st == StackPush([limit |-> limit, entries |-> entries, position |-> position],
                           record)
       IN  /\ entries' = st.entries
           /\ position' = st.position
           /\ erope' = SubSeq(erope, 1, index) \o <<npush + 1>>
                         \o SubSeq(erope, index + 1, Len(erope))
           /\ ecursor' = index + 1
    /\ npush' = npush + 1
    /\ UNCHANGED limit
    /\ UNCHANGED <<avars, svars, wvars, uvars, fvars, cvars, dvars, tvars, lvars, kvars>>

\* UndoStack::undo, when it returns true
EditorUndo ==
    /\ position # 0
    /\ position' = position - 1
    /\ LET record == entries[position - 1 + 1] IN
         /\ erope' = SubSeq(erope, 1, record.index)
                       \o SubSeq(erope, record.index + 2, Len(erope))
         /\ ecursor' = record.before
    /\ UNCHANGED <<limit, entries, npush>>
    /\ UNCHANGED <<avars, svars, wvars, uvars, fvars, cvars, dvars, tvars, lvars, kvars>>

\* UndoStack::redo, when it returns true
EditorRedo ==
    /\ position < Len(entries)
    /\ LET record == entries[position + 1] IN
         /\ erope' = SubSeq(erope, 1, record.index) \o <<record.text>>
                       \o SubSeq(erope, record.index + 1, Len(erope))
         /\ ecursor' = record.after
    /\ position' = position + 1
    /\ UNCHANGED <<limit, entries, npush>>
    /\ UNCHANGED <<avars, svars, wvars, uvars, fvars, cvars, dvars, tvars, lvars, kvars>>

\* UndoStack::clear
EditorClear ==
    /\ entries' = <<>>
    /\ position' = 0
    /\ UNCHANGED <<limit, erope, ecursor, npush>>
    /\ UNCHANGED <<avars, svars, wvars, uvars, fvars, cvars, dvars, tvars, lvars, kvars>>

(***************************************************************************)
(* Transport (crates/core/src/transport.rs): the reader task spawned by    *)
(* Transport::new and Transport::recv.                                     *)
(***************************************************************************)
\* what stream.next().await can be: Ok(Message::..) or Err(_)
WireItems ==
    { [kind |-> "Binary", data |-> 1], [kind |-> "Binary", data |-> 2],
      [kind |-> "Text", data |-> 3], [kind |-> "Ping", data |-> 4],
      [kind |-> "Pong", data |-> 0], [kind |-> "Close", data |-> 0],
      [kind |-> "Err", data |-> 0] }

Wires == UNION { [1..n -> WireItems] : n \in 0..MaxMsgs }

\* the reader task's match: what it sends on the channel for one item
\* mutant of Forwarded: text frames are forwarded too
ForwardedWithText(m) == IF m.kind \in { "Binary", "Text" } THEN <<m.data>> ELSE <<>>

Forwarded(m) == IF m.kind = "Binary" THEN <<m.data>> ELSE <<>>

\* the reader task's match: the arms that break out of the loop
Breaks(m) == m.kind \in { "Close", "Err" }

\* Transport::new
InitTransport ==
    /\ wire \in Wires
    /\ tpos = 0
    /\ rpc = "run"
    /\ chan = <<>>
    /\ yielded = <<>>
    /\ recvNone = FALSE
    /\ pongs = <<>>

\* reader task: stream.next().await yields Some(msg), and the match on it
ReaderNext ==
    /\ rpc = "run"
    /\ tpos < Len(wire)
    /\ LET msg == wire[tpos + 1] IN
         /\ tpos' = tpos + 1
         /\ chan' = chan \o Forwarded(msg)
         /\ pongs' = IF msg.kind = "Ping" THEN Append(pongs, msg.data) ELSE pongs
         /\ rpc' = IF Breaks(msg) THEN "ended" ELSE "run"
    /\ UNCHANGED <<wire, yielded, recvNone>>
    /\ UNCHANGED <<avars, svars, wvars, uvars, fvars, cvars, dvars, lvars, kvars, evars>>

\* reader task: stream.next().await yields None, the loop ends and tx is dropped
ReaderEnd ==
    /\ rpc = "run"
    /\ tpos = Len(wire)
    /\ rpc' = "ended"
    /\ UNCHANGED <<wire, tpos, chan, yielded, recvNone, pongs>>
    /\ UNCHANGED <<avars, svars, wvars, uvars, fvars, cvars, dvars, lvars, kvars, evars>>

\* Transport::recv: self.rx.recv().await returns the oldest queued payload,
\* or None once the channel is empty and the reader task has dropped tx
TransportRecv ==
    /\ ~recvNone
    /\ IF chan # <<>>
         THEN /\ yielded' = Append(yielded, Head(chan))
              /\ chan' = Tail(chan)
              /\ UNCHANGED recvNone
         ELSE /\ rpc = "ended"
              /\ recvNone' = TRUE
              /\ UNCHANGED <<chan, yielded>>
    /\ UNCHANGED <<wire, tpos, rpc, pongs>>
    /\ UNCHANGED <<avars, svars, wvars, uvars, fvars, cvars, dvars, lvars, kvars, evars>>

(***************************************************************************)
(* The specifications.  Each leaves the other components as they are.      *)
(***************************************************************************)
\* no session has been spawned
NoSession ==
    /\ file = NotFound
    /\ opened = <<>>
    /\ buffer = <<>>
    /\ eol = "Lf"
    /\ hex_bytes = None
    /\ doc_v = 0
    /\ selection = [start |-> 0, end |-> 0]
    /\ rx = <<>>
    /\ rxOpen = TRUE
    /\ tx = <<>>
    /\ txOpen = TRUE
    /\ spc = "none"
    /\ cur = NoCmd
    /\ pending = NoFrame
    /\ lock = "free"
    /\ sleeping = FALSE
    /\ fired = 0
    /\ sentCmds = <<>>
    /\ gotFrames = <<>>

\* no listener is running
NoAcceptor ==
    /\ secret_hash = "none"
    /\ active = FALSE
    /\ accPc = "none"
    /\ backlog = <<>>
    /\ conn = [c \in Conns |-> "idle"]
    /\ gone = [c \in Conns |-> FALSE]
    /\ out = [c \in Conns |-> <<>>]
    /\ seen = [c \in Conns |-> <<>>]
    /\ taken = [c \in Conns |-> 0]

\* no WAL is opened: the session has none
NoWal ==
    /\ walFile = <<>>
    /\ wpc = "closed"
    /\ walDocV = 0
    /\ docFile = <<>>
    /\ docBuf = <<>>
    /\ appended = <<>>
    /\ preText = <<>>
    /\ loggedText = <<>>
    /\ synced = TRUE
    /\ damage = NoDamage
    /\ nrecs = 0

\* no undo stack is in use
NoUndo ==
    /\ ubuf = <<>>
    /\ past = <<>>
    /\ future = <<>>
    /\ base = <<>>
    /\ lastOp = NoOp
    /\ chain = NoChain
    /\ nops = 0

\* no buffer file is in use
NoFile ==
    /\ target = <<>>
    /\ original = <<>>
    /\ rope = NoRope
    /\ edited = FALSE
    /\ fpc = "none"
    /\ contents = <<>>
    /\ old = <<>>
    /\ tmp = NotFound

\* no composer is called
NoCompose ==
    /\ vtext = <<>>
    /\ vargs = NoArgs
    /\ vframe = NoView

\* no debouncer is in use
NoDebounce ==
    /\ delay = 0
    /\ handle = 0
    /\ dtask = [c \in Calls |-> NoTask]
    /\ now = 0
    /\ ran = <<>>
    /\ burst = TRUE

\* no transport is in use
NoTransport ==
    /\ wire = <<>>
    /\ tpos = 0
    /\ rpc = "none"
    /\ chan = <<>>
    /\ yielded = <<>>
    /\ recvNone = FALSE
    /\ pongs = <<>>

\* no legacy server is running
NoLegacy ==
    /\ client_active = FALSE
    /\ held = FALSE
    /\ runPc = "none"
    /\ hpc = "none"
    /\ nconn = 0
    /\ mine = FALSE
    /\ ended = "none"
    /\ replies = <<>>

\* no legacy client exists
NoClient ==
    /\ cws = FALSE
    /\ status = "none"
    /\ queue = <<>>
    /\ cpc = "none"
    /\ call = [op |-> "none", msg |-> 0]
    /\ cdelay = 0
    /\ attempts = 0
    /\ flushing = <<>>
    /\ nextId = 0
    /\ sentLog = <<>>
    /\ enqueued = {}

\* no legacy UndoStack exists
NoEditorUndo ==
    /\ limit = 0
    /\ entries = <<>>
    /\ position = 0
    /\ erope = <<>>
    /\ ecursor = 0
    /\ npush = 0

Init == InitAcceptor /\ NoSession /\ NoWal /\ NoUndo /\ NoFile /\ NoCompose /\ NoDebounce /\ NoTransport /\ NoLegacy /\ NoClient /\ NoEditorUndo

InitS == InitSession /\ NoAcceptor /\ NoWal /\ NoUndo /\ NoFile /\ NoCompose /\ NoDebounce /\ NoTransport /\ NoLegacy /\ NoClient /\ NoEditorUndo

InitW == InitWal /\ NoAcceptor /\ NoSession /\ NoUndo /\ NoFile /\ NoCompose /\ NoDebounce /\ NoTransport /\ NoLegacy /\ NoClient /\ NoEditorUndo

InitU == InitUndo /\ NoAcceptor /\ NoSession /\ NoWal /\ NoFile /\ NoCompose /\ NoDebounce /\ NoTransport /\ NoLegacy /\ NoClient /\ NoEditorUndo

Next ==
    \/ \E c \in Conns : Connect(c)
    \/ \E c \in Conns : PeerDrop(c)
    \/ Accept
    \/ AcceptError
    \/ \E c \in Conns : HandshakeError(c)
    \/ \E c \in Conns : Dispatch(c)
    \/ \E c \in Conns : HandleBusySend(c)
    \/ \E c \in Conns : HandleBusyClose(c)
    \/ \E c \in Conns, m \in ClientFrames : ExpectHello(c, m)
    \/ \E c \in Conns, m \in ClientFrames : ExpectAuth(c, m)
    \/ \E c \in Conns : CloseUnauthorized(c)
    \/ \E c \in Conns : HandlerReturn(c)
    \/ \E c \in Conns, m \in ClientFrames : RunLoop(c, m)

Spec == Init /\ [][Next]_vars

NextSession ==
    \/ \E cmd \in Commands : SendCmd(cmd)
    \/ DropCmd
    \/ RecvFrame
    \/ DropFrames
    \/ Recv
    \/ RecvNone
    \/ DoInsert
    \/ DoRequestFrame
    \/ Emit
    \/ DoSave
    \/ FinalFlush
    \/ \E ok \in BOOLEAN : ActorSaveEnd(ok)
    \/ TimerFire
    \/ TimerLock
    \/ \E ok \in BOOLEAN : TimerSaveEnd(ok)

SpecSession == InitS /\ [][NextSession]_vars

InitB == InitS /\ file = <<"h">>

NextBurst ==
    \/ \E cmd \in Commands : SendBurst(cmd)
    \/ RecvFrame
    \/ Recv
    \/ DoInsert
    \/ DoRequestFrame
    \/ Emit
    \/ TimerFire
    \/ TimerLock
    \/ \E ok \in BOOLEAN : TimerSaveEnd(ok)

SpecBurst == InitB /\ [][NextBurst]_vars

NextWal ==
    \/ WalNew
    \/ WalDrop
    \/ \E record \in RawRecords : WalAppend(record)
    \/ \E record \in Edits : Edit(record)
    \/ BufSaveTo
    \/ \E threshold \in CompactThresholds : WalCompact(threshold)
    \/ \E k \in CutLens : Truncate(k)
    \/ \E k \in 1..MaxRecs, flaw \in Flaws : Corrupt(k, flaw)

SpecWal == InitW /\ [][NextWal]_vars

NextUndo ==
    \/ \E idx \in 0..MaxUndoText, text \in UndoInserts : CallInsert(idx, text)
    \/ \E start \in 0..MaxUndoText, n \in DeleteLens : CallDelete(start, start + n)
    \/ CallUndo
    \/ CallRedo

SpecUndo == InitU /\ [][NextUndo]_vars

InitF == InitFile /\ NoAcceptor /\ NoSession /\ NoWal /\ NoUndo /\ NoCompose /\ NoDebounce /\ NoTransport /\ NoLegacy /\ NoClient /\ NoEditorUndo

NextFile ==
    \/ BufOpen
    \/ BufEdit
    \/ SaveTo
    \/ AwCreate
    \/ AwWrite
    \/ AwSync
    \/ AwRename
    \/ AwOpenDir
    \/ AwSyncDir
    \/ AwFail
    \/ \E kept \in BOOLEAN : AwCrash(kept)

SpecFile == InitF /\ [][NextFile]_vars

InitC == InitCompose /\ NoAcceptor /\ NoSession /\ NoWal /\ NoUndo /\ NoFile /\ NoDebounce /\ NoTransport /\ NoLegacy /\ NoClient /\ NoEditorUndo

NextCompose ==
    \/ CallCompose
    \/ CallComposeHex

SpecCompose == InitC /\ [][NextCompose]_vars

InitD == InitDebounce /\ NoAcceptor /\ NoSession /\ NoWal /\ NoUndo /\ NoFile /\ NoCompose /\ NoTransport /\ NoLegacy /\ NoClient /\ NoEditorUndo

NextDebounce ==
    \/ DebouncerCall
    \/ \E c \in Calls : TaskSleep(c)
    \/ \E c \in Calls : TaskAction(c)
    \/ Tick

SpecDebounce == InitD /\ [][NextDebounce]_vars

InitT ==
    /\ InitTransport
    /\ NoAcceptor /\ NoSession /\ NoWal /\ NoUndo /\ NoFile /\ NoCompose /\ NoDebounce
    /\ NoLegacy /\ NoClient /\ NoEditorUndo

NextTransport ==
    \/ ReaderNext
    \/ ReaderEnd
    \/ TransportRecv

SpecTransport == InitT /\ [][NextTransport]_vars

InitL ==
    /\ InitLegacy
    /\ NoAcceptor /\ NoSession /\ NoWal /\ NoUndo /\ NoFile /\ NoCompose /\ NoDebounce
    /\ NoTransport /\ NoClient /\ NoEditorUndo

NextLegacy ==
    \/ \E ok \in BOOLEAN : LegacyAccept(ok)
    \/ \E ok \in BOOLEAN : LegacyBusyHandshake(ok)
    \/ \E ok \in BOOLEAN : LegacyBusySend(ok)
    \/ \E ok \in BOOLEAN : LegacyHandshake(ok)
    \/ \E how \in { "none", "close", "rejected", "io", "parse", "send" } : LegacyAuth(how)
    \/ \E sent \in BOOLEAN : LegacyLockRequest(sent)
    \/ \E how \in { "io", "parse" } : LegacyLoopError(how)
    \/ LegacyLoopClose

SpecLegacy == InitL /\ [][NextLegacy]_vars

InitK ==
    /\ InitClient
    /\ NoAcceptor /\ NoSession /\ NoWal /\ NoUndo /\ NoFile /\ NoCompose /\ NoDebounce
    /\ NoTransport /\ NoLegacy /\ NoEditorUndo

NextClient ==
    \/ \E op \in { "connect", "request" } : ClientCall(op)
    \/ \E ok \in BOOLEAN : ClientConnect(ok)
    \/ \E res \in { "success", "rejected", "io" } : ClientAuth(res)
    \/ \E ok \in BOOLEAN : ClientFlush(ok)
    \/ \E ok \in BOOLEAN : ClientSend(ok)
    \/ \E res \in { "match", "mismatch", "timeout" } : ClientResponse(res)

SpecClient == InitK /\ [][NextClient]_vars

InitE ==
    /\ InitEditorUndo
    /\ NoAcceptor /\ NoSession /\ NoWal /\ NoUndo /\ NoFile /\ NoCompose /\ NoDebounce
    /\ NoTransport /\ NoLegacy /\ NoClient

NextEditorUndo ==
    \/ \E index \in 0..1 : EditorPush(index)
    \/ EditorUndo
    \/ EditorRedo
    \/ EditorClear

SpecEditorUndo == InitE /\ [][NextEditorUndo]_vars

(***************************************************************************)
(* Acceptor properties (checked under Spec).                               *)
(***************************************************************************)
\* some connection is inside its handle_connection task
HandlerLive == \E d \in Conns : conn[d] \in HandlerStates

\* the accept loop decides about connection c in this step
Decided(c) == conn[c] = "handshake" /\ conn'[c] \notin {"handshake", "failed"}

\* C1: while a connection holds the single-client gate, every other
\* connection that completes the WebSocket handshake is sent exactly one
\* Error{Busy} envelope and then a Close, nothing else (a peer that is still
\* connected receives exactly that), and it never becomes the active session.
C1_BusyThenClose ==
    /\ [](\A c \in Conns :
            /\ conn[c] \in BusyStates \cup {"rejected"} =>
                 out[c] \in {<<>>, <<"Error_Busy">>, <<"Error_Busy", "Close">>}
            /\ conn[c] = "busy_close" /\ ~gone[c] => out[c] = <<"Error_Busy">>
            /\ conn[c] = "rejected" /\ ~gone[c] => out[c] = <<"Error_Busy", "Close">>)
    /\ [][\A c \in Conns : Decided(c) /\ HandlerLive => conn'[c] = "busy_send"]_vars
    /\ [][\A c \in Conns : conn[c] \in BusyStates \cup {"rejected"}
                             => conn'[c] \in BusyStates \cup {"rejected"}]_vars

\* C1 witness: a second connection has been answered Busy and closed while
\* the first one is still being served.
C1_Witness ==
    \E c, d \in Conns :
        /\ conn[d] \in HandlerStates
        /\ conn[c] = "rejected" /\ ~gone[c]
        /\ out[c] = <<"Error_Busy", "Close">>

\* C2: at most one connection is admitted (inside handle_connection) at a time.
C2_AtMostOneAdmitted == Cardinality({c \in Conns : conn[c] \in HandlerStates}) <= 1

\* C2 witness: a session is running, an earlier one has ended, and a further
\* connection has just completed its handshake.
C2_Witness ==
    \E c, d, e \in Conns :
        conn[c] = "closed" /\ conn[d] = "running" /\ conn[e] = "handshake"

C4_GateReleasedAfterPanic ==
    (\E c \in Conns : conn[c] = "panicked") /\ ~HandlerLive => ~active

\* number of Error envelopes among the frames in s
RECURSIVE Errors(_)
Errors(s) ==
    IF s = <<>> THEN 0
    ELSE (IF Head(s) \in {"Error_Busy", "Error_Unauthorized", "Error_RateLimit"} THEN 1 ELSE 0)
           + Errors(Tail(s))

C6_HelloTypeRequired ==
    \A c \in Conns :
        conn[c] \in {"auth", "unauth", "running"} =>
            seen[c][1].kind = "Binary" /\ seen[c][1].ty = "Hello"

\* the N of the rate limit (three connections per window)
RateN == 3

\* C7: of the connections started within one window, those after the first
\* RateN are not admitted and are sent Error{RateLimit} and then Close.
C7_RateLimited ==
    \A c \in Conns :
        c > RateN =>
            /\ conn[c] \notin HandlerStates \cup {"closed", "panicked"}
            /\ conn[c] = "rejected" /\ ~gone[c] => out[c] = <<"Error_RateLimit", "Close">>

\* C8: every Binary frame a connection sends after the handshake is
\* dispatched to the session actor's command channel.
C8_CommandsDispatched ==
    [][\A c \in Conns : taken'[c] > taken[c] => Len(rx') = Len(rx) + 1]_vars

(***************************************************************************)
(* Session properties (checked under SpecSession).                         *)
(***************************************************************************)
\* the commands the actor has finished handling, in the order sent
Processed ==
    SubSeq(sentCmds, 1, Len(sentCmds) - Len(rx) - (IF spc = "cmd" THEN 1 ELSE 0))

\* the frames sent so far that were not dropped: received, queued, being sent
FrameStream == gotFrames \o tx \o (IF spc = "emit" THEN <<pending>> ELSE <<>>)

\* the frames that handling cmds one after the other produces, starting from
\* buffer text t, caret e and doc_version v
RECURSIVE FramesOf(_, _, _, _)
FramesOf(cmds, t, e, v) ==
    IF cmds = <<>> THEN <<>>
    ELSE LET c == Head(cmds) IN
         IF c.op = "Insert" /\ hex_bytes = None
         THEN <<ComposeFrame(hex_bytes, BufInsert(t, e, c.text), v + 1)>>
                \o FramesOf(Tail(cmds), BufInsert(t, e, c.text), e + Len(c.text), v + 1)
         ELSE IF c.op = "RequestFrame"
         THEN <<ComposeFrame(hex_bytes, t, v)>> \o FramesOf(Tail(cmds), t, e, v)
         ELSE FramesOf(Tail(cmds), t, e, v)

\* number of Insert commands in cmds
RECURSIVE Inserts(_)
Inserts(cmds) ==
    IF cmds = <<>> THEN 0
    ELSE (IF Head(cmds).op = "Insert" THEN 1 ELSE 0) + Inserts(Tail(cmds))

\* C9: the actor handles commands in the order they were sent (what is
\* still queued is the tail of what was sent, the command in hand is the one
\* before it), and the frames come out in the order of the commands that
\* caused them: the k-th frame is the frame of the k-th frame-producing command.
C9_CommandOrder ==
    /\ rx = SubSeq(sentCmds, Len(sentCmds) - Len(rx) + 1, Len(sentCmds))
    /\ spc = "cmd" => cur = sentCmds[Len(sentCmds) - Len(rx)]
    /\ txOpen => FrameStream = FramesOf(Processed, opened, 0, 0)
    /\ Len(gotFrames) <= Len(FramesOf(sentCmds, opened, 0, 0))
    /\ gotFrames = SubSeq(FramesOf(sentCmds, opened, 0, 0), 1, Len(gotFrames))

\* C9 witness: three commands were sent, two of them produce frames, and the
\* frames of both were received in that order.
C9_Witness ==
    /\ Len(sentCmds) = 3
    /\ sentCmds[1].op = "Insert" /\ sentCmds[2].op = "Save" /\ sentCmds[3].op = "Insert"
    /\ sentCmds[1].text # sentCmds[3].text
    /\ Len(gotFrames) = 2
    /\ gotFrames[1].doc_v = 1 /\ gotFrames[2].doc_v = 2

\* C10: doc_version starts at 0, is the number of Inserts applied in editor
\* mode (RequestFrame and Save leave it alone, hex mode leaves it at 0), never
\* decreases, and every frame carries the doc_version it was composed at, so
\* doc_v is nondecreasing along the frame stream.
C10_DocVersion ==
    /\ [](/\ doc_v = IF hex_bytes = None THEN Inserts(Processed) ELSE 0
          /\ sentCmds = <<>> => doc_v = 0
          /\ spc = "emit" => pending.doc_v = doc_v
          /\ \A i \in 1..Len(FrameStream) :
               /\ FrameStream[i].doc_v <= doc_v
               /\ i > 1 => FrameStream[i - 1].doc_v <= FrameStream[i].doc_v)
    /\ [][doc_v' >= doc_v]_vars
    /\ [][(spc = "cmd" /\ cur.op = "Insert" /\ hex_bytes = None /\ spc' # "cmd")
            => doc_v' = doc_v + 1]_vars
    /\ [][~(spc = "cmd" /\ cur.op = "Insert" /\ hex_bytes = None) => doc_v' = doc_v]_vars

\* C10 witness: after Insert, RequestFrame, Insert the received frames carry
\* doc_v 1, 1, 2 and the session is at doc_version 2.
C10_Witness ==
    /\ doc_v = 2
    /\ Len(gotFrames) = 3
    /\ gotFrames[1].doc_v = 1 /\ gotFrames[2].doc_v = 1 /\ gotFrames[3].doc_v = 2
    /\ sentCmds[2].op = "RequestFrame"

\* the texts of the Insert commands in cmds, one after the other
RECURSIVE InsertedText(_)
InsertedText(cmds) ==
    IF cmds = <<>> THEN <<>>
    ELSE (IF Head(cmds).op = "Insert" THEN Head(cmds).text ELSE <<>>)
           \o InsertedText(Tail(cmds))

\* C11: an Insert handled in editor mode puts its text into the buffer at
\* byte index selection.end and changes nothing else of the buffer (the
\* bytes before the index stay, the bytes behind it move up by the length of
\* the text), and the selection becomes the empty range behind the text; so
\* the buffer is always the inserted texts, in the order sent, in front of
\* the text loaded from the file, with the caret behind them.
C11_InsertAtCaret ==
    /\ [][(spc = "cmd" /\ cur.op = "Insert" /\ hex_bytes = None /\ spc' # "cmd")
            => LET e == selection.end
                   n == Len(cur.text)
               IN  /\ Len(buffer') = Len(buffer) + n
                   /\ \A i \in 1..e : buffer'[i] = buffer[i]
                   /\ \A i \in 1..n : buffer'[e + i] = cur.text[i]
                   /\ \A i \in (e + 1)..Len(buffer) : buffer'[i + n] = buffer[i]
                   /\ selection' = [start |-> e + n, end |-> e + n]]_vars
    /\ [](hex_bytes = None =>
            /\ buffer = InsertedText(Processed) \o opened
            /\ selection.start = Len(InsertedText(Processed))
            /\ selection.end = Len(InsertedText(Processed)))

\* C11 witness: two different Inserts were handled on a file that was not
\* empty; both texts stand in front of the file's text, in the order sent.
C11_Witness ==
    /\ hex_bytes = None
    /\ opened = <<"h">>
    /\ Len(Processed) = 2
    /\ Processed[1] = [op |-> "Insert", text |-> <<"b", "LF">>]
    /\ Processed[2] = [op |-> "Insert", text |-> <<"a">>]
    /\ buffer = <<"b", "LF", "a", "h">>
    /\ selection.end = 3

\* C12: every Insert applied in editor mode appends exactly one record to
\* the session's WAL, an Insert record with the new doc_version, the index
\* the text went to and the text, and no frame of a doc_version is on its
\* way before the WAL holds that many records.
C12_InsertLogged ==
    /\ [][(spc = "cmd" /\ cur.op = "Insert" /\ hex_bytes = None /\ spc' # "cmd")
            => /\ Len(Replay(walFile')) = Len(Replay(walFile)) + 1
               /\ Replay(walFile')[Len(Replay(walFile'))]
                     = InsertRec(doc_v', selection.end, cur.text)]_vars
    /\ [](\A i \in 1..Len(FrameStream) :
            FrameStream[i].kind = "editor" => Len(Replay(walFile)) >= FrameStream[i].doc_v)

(***************************************************************************)
(* Write-ahead log properties (checked under SpecWal).                     *)
(***************************************************************************)
\* C13: at every state of an editing run (whatever edits, saves and
\* compactions came before, and wherever it would crash), replaying the
\* records now in the WAL, in order, on the file contents now on disk gives
\* the buffer text as of the last logged edit: no logged edit is missing and
\* none is applied a second time.
C13_CrashRecovery ==
    (synced /\ damage = NoDamage) => ApplyAll(docFile, Replay(walFile)) = loggedText

\* C14: replaying a WAL file returns exactly the records appended to it, in
\* the order appended, each with the doc_version and operation it was
\* appended with; and applying the replayed records to the text the buffer
\* had when the WAL was empty gives the text the buffer has after the edits.
C14_ReplayRoundTrip ==
    damage = NoDamage =>
        /\ Replay(walFile) = appended
        /\ synced => ApplyAll(preText, Replay(walFile)) = docBuf

\* C14 witness: an Insert and a Delete were appended and applied, the buffer
\* text changed, and the replay returns the two records.
C14_Witness ==
    /\ damage = NoDamage
    /\ synced
    /\ Len(appended) = 2
    /\ appended[1].op = "Insert" /\ appended[1].idx > 0
    /\ appended[2].op = "Delete" /\ appended[2].start > 0
    /\ docBuf # preText
    /\ Len(Replay(walFile)) = 2

\* C15: when a WAL file holding the records r1..rn has lost k >= 1 of the
\* trailing bytes of its last record, replay returns exactly r1..r(n-1),
\* unchanged and in order.
C15_TruncatedTail ==
    damage.kind = "cut" => Replay(walFile) = SubSeq(appended, 1, Len(appended) - 1)

\* C15 witness: a file of two records has lost the last byte of the second
\* record, and the replay returns the first record.
C15_Witness ==
    /\ damage.kind = "cut"
    /\ Len(appended) = 2
    /\ Len(walFile) = Len(FileOf(appended, 0, "crc")) - 1
    /\ Replay(walFile) = <<appended[1]>>

\* C16: when record k of a WAL file has an invalid CRC, magic, version, op
\* type or payload length, replay returns exactly the records before k, and
\* no record that lies behind k in the file, well-formed or not.
C16_CorruptionEndsReplay ==
    damage.kind \in Flaws => Replay(walFile) = SubSeq(appended, 1, damage.rec - 1)

\* C17: in a WAL file written through the Wal handle, by any sequence of
\* open, append and compact_if_needed calls, the doc_version of the records
\* never decreases from one record of the file to the next.
C17_DocVNondecreasing ==
    damage = NoDamage =>
        \A i \in 1..(Len(Replay(walFile)) - 1) :
            Replay(walFile)[i].doc_v <= Replay(walFile)[i + 1].doc_v

(***************************************************************************)
(* Undo stack properties (checked under SpecUndo).                         *)
(***************************************************************************)
\* C18: after an insert or delete made through the undo stack, an undo
\* followed by a redo leaves the buffer text as it was right after the edit,
\* and past and future as deep as they were right after the edit.
C18_UndoRedoRestores ==
    chain.stage = 3 =>
        /\ ubuf = chain.text
        /\ Len(past) = chain.np
        /\ Len(future) = chain.nf

\* C18 witness: an insert was coalesced into an entry of three bytes, and
\* undo and redo of it succeeded.
C18_Witness ==
    /\ chain.stage = 3
    /\ Len(past) = 1
    /\ past[1].op = "Insert" /\ Len(past[1].text) = 3
    /\ lastOp.op = "redo" /\ lastOp.ok
    /\ Len(ubuf) = 5

\* C19: an insert that begins where the Insert entry on top of past ends
\* (at its idx plus the byte length of the text it has accumulated) adds no
\* entry, so a run of such inserts adds one entry in all, and one undo then
\* gives back the buffer text from before the first insert of the run; an
\* insert at any other index pushes an entry of its own, and one undo takes
\* back that insert alone.
C19_AdjacentInsertsCoalesce ==
    [][(lastOp'.op = "insert" /\ nops' = nops + 1) =>
         LET top == past[Len(past)]
             after == UndoStackUndo(ubuf', past', future')
         IN  IF past # <<>> /\ top.op = "Insert" /\ lastOp'.idx = top.idx + Len(top.text)
               THEN /\ Len(past') = Len(past)
                    /\ after.ok
                    /\ after.buf = base[Len(base)]
                    /\ after.past = SubSeq(past, 1, Len(past) - 1)
               ELSE /\ Len(past') = Len(past) + 1
                    /\ after.ok
                    /\ after.buf = ubuf
                    /\ after.past = past]_vars

\* C19 witness: after a run of three adjacent inserts and one insert
\* elsewhere, past holds two entries, the first with the text of the run.
C19_Witness ==
    /\ nops = 4
    /\ Len(past) = 2
    /\ past[1] = InsertEdit(1, <<"x", "y", "z", "x">>)
    /\ past[2] = InsertEdit(0, <<"x">>)
    /\ ubuf = <<"x", "a", "x", "y", "z", "x", "b">>
    /\ base = << <<"a", "b">>, <<"a", "x", "y", "z", "x", "b">> >>

\* C20: right after an insert or delete made through the undo stack,
\* coalesced or not and whatever edits, undos and redos came before, future
\* is empty: a redo returns false and changes neither the buffer nor past
\* nor future.
C20_EditClearsFuture ==
    lastOp.op \in {"insert", "delete"} =>
        /\ future = <<>>
        /\ UndoStackRedo(ubuf, past, future)
             = [ok |-> FALSE, buf |-> ubuf, past |-> past, future |-> future]

\* C20 witness: an insert was coalesced into the top entry of past while
\* future held an undone edit, and future is empty after it.
C20_Witness ==
    /\ lastOp.op = "insert"
    /\ lastOp.coalesced
    /\ lastOp.dropped > 0
    /\ future = <<>>
    /\ past # <<>>

(***************************************************************************)
(* Claims about the buffer file and the atomic writer (SpecFile).          *)
(***************************************************************************)
\* a save_to call was made on the rope and has got as far as atomic_write
SaveStarted == fpc \in AwSteps \cup { "ok", "err" }

\* every line of the file ends the same way: no CR LF at all, or no LF without its CR
UniformEol(f) ==
    ContainsCrLf(f) => \A i \in 1..Len(f) : f[i] = "LF" => (i > 1 /\ f[i - 1] = "CR")

\* C21 as claimed: for every valid-UTF-8 file, open followed by save_to with
\* no edit in between writes back exactly the bytes that were read, also
\* when the file mixes CR LF and bare LF line ends.
C21_RoundTripAnyEol ==
    (SaveStarted /\ ~edited /\ ValidUtf8(original)) =>
        /\ contents = original
        /\ fpc = "ok" => target = original

\* C21, amended: for every valid-UTF-8 file whose lines all end the same way
\* (no CR LF in it, or a CR before every LF), open followed by save_to with
\* no edit in between writes back exactly the bytes that were read.
C21_RoundTripUniformEol ==
    (SaveStarted /\ ~edited /\ ValidUtf8(original) /\ UniformEol(original)) =>
        /\ contents = original
        /\ fpc = "ok" => target = original

\* a CR LF file was opened and saved back, unedited
C21_Witness ==
    /\ fpc = "ok"
    /\ ~edited
    /\ original = <<"h", "CR", "LF">>
    /\ rope.text = <<"h", "LF">>
    /\ target = original

\* C22: during atomic_write(path, contents) over a target holding old, at
\* every step and after a crash or an I/O failure at any step, the bytes at
\* path are exactly old or exactly contents; up to the rename they are old,
\* and after a successful return they are contents.
C22_OldOrNew ==
    /\ (SaveStarted \/ fpc = "crashed") => target \in { old, contents }
    /\ fpc \in { "create", "write", "sync", "rename" } => target = old
    /\ fpc = "ok" => target = contents

\* the process died while the temp file held a proper, non-empty part of
\* the new bytes
C22_Witness ==
    /\ fpc = "crashed"
    /\ old # contents
    /\ tmp # NotFound
    /\ tmp # contents
    /\ Len(tmp) > 0
    /\ target = old

(***************************************************************************)
(* Claims about hex mode and saving (SpecSession).                         *)
(***************************************************************************)
\* C23: in hex mode an Insert command is a no-op: handling it leaves the
\* buffer, the hex bytes, the selection and doc_version as they are,
\* schedules no save and emits no frame; no save is ever scheduled in hex
\* mode, and every frame of the session is the hex frame of the same bytes
\* with doc_v 0.
C23_HexInsertNoOp ==
    /\ [][(spc = "cmd" /\ cur.op = "Insert" /\ hex_bytes # None /\ spc' # "cmd") =>
            /\ UNCHANGED <<buffer, hex_bytes, selection, doc_v, sleeping, fired, lock, file, tx>>
            /\ spc' = "recv"
            /\ pending' = NoFrame]_vars
    /\ [](hex_bytes # None =>
            /\ ~sleeping /\ fired = 0
            /\ buffer = opened /\ doc_v = 0
            /\ \A i \in 1..Len(FrameStream) : FrameStream[i] = ComposeHex(hex_bytes, 0))

\* a hex session handled an Insert and then a RequestFrame, whose frame was
\* received
C23_Witness ==
    /\ hex_bytes # None
    /\ Len(sentCmds) = 2
    /\ sentCmds[1].op = "Insert"
    /\ sentCmds[2].op = "RequestFrame"
    /\ rx = <<>>
    /\ spc = "recv"
    /\ gotFrames = <<ComposeHex(hex_bytes, 0)>>

\* C24: a session opened on a file that contains invalid UTF-8 never writes
\* to the file, whatever commands, debounce firings and channel closure
\* happen: the bytes on disk stay as they were.
C24_InvalidFileNeverWritten == [][~ValidUtf8(file) => file' = file]_vars

(***************************************************************************)
(* Claims about the frame composers (SpecCompose).  Lengths and columns    *)
(* are counted in bytes, as the composer's slicing and cols are.           *)
(***************************************************************************)
\* C25: every frame, of kind "editor" or "hex", for any viewport size, has
\* every line's text no longer than the frame's cols.
C25_LineWidth ==
    vframe.kind \in { "editor", "hex" } =>
        \A j \in 1..Len(vframe.lines) : Len(vframe.lines[j]) <= vargs.cols

\* C26: every span the viewport composer emits has
\* 0 <= start_col < end_col <= cols and ends inside the visible text of its
\* row, and every cursor it emits is on a line in [first_line, first_line + rows).
C26_SpanBounds ==
    vframe.kind = "editor" =>
        /\ \A k \in 1..Len(vframe.spans) :
             LET s == vframe.spans[k] IN
             /\ 0 <= s.start_col
             /\ s.start_col < s.end_col
             /\ s.end_col <= vargs.cols
             /\ s.row < Len(vframe.lines)
             /\ s.end_col <= Len(vframe.lines[s.row + 1])
        /\ \A k \in 1..Len(vframe.cursors) :
             /\ vargs.first_line + vframe.cursors[k].row >= vargs.first_line
             /\ vargs.first_line + vframe.cursors[k].row < vargs.first_line + vargs.rows

\* a horizontally scrolled frame with a selection span, a trailing-whitespace
\* span, a U+FFFD span and a cursor
C26_Witness ==
    /\ vframe.kind = "editor"
    /\ vargs.hscroll > 0
    /\ \A c \in { "sel", "ws", "err" } :
         \E k \in 1..Len(vframe.spans) : vframe.spans[k].class = c
    /\ Len(vframe.cursors) = 1

\* a text with the line ends a file of style e has
EolConverted(t, e) == IF e = "CrLf" THEN LfToCrLf(t) ELSE t

\* the step that ends the handling of a Save command
SaveHandled == (spc = "saving" \/ (spc = "cmd" /\ cur.op = "Save")) /\ spc' = "recv"

C29_SavesExclusive ==
    /\ [](lock \in { "free", "actor", "timer" })
    /\ [](lock = "actor" <=> spc \in { "saving", "flushing" })
    /\ [][file' # file => lock \in { "actor", "timer" }]_vars
    /\ [][buffer' # buffer => (lock = "free" /\ lock' = "free")]_vars
    /\ [][(lock \in { "actor", "timer" } /\ lock' # lock) => lock' = "free"]_vars

\* the actor is saving for a Save command while a debounce task, past its
\* sleep, waits for the buffer lock and another Insert waits in the queue
C29_Witness ==
    /\ spc = "saving"
    /\ lock = "actor"
    /\ fired > 0
    /\ rx # <<>>
    /\ Head(rx).op = "Insert"

(***************************************************************************)
(* Claims about the debouncer (SpecDebounce).                              *)
(***************************************************************************)
\* C30: in a burst of Debouncer::call invocations, each made before the
\* delay of the previous call has elapsed, at most one action is scheduled
\* at any moment, only the action of the last call runs, it runs once and
\* not before the delay has elapsed since that call, and when nothing is
\* scheduled any more exactly one action has run.
C30_BurstRunsLastOnce ==
    (burst /\ handle > 0) =>
        /\ Cardinality(Scheduled) <= 1
        /\ Scheduled \subseteq { handle }
        /\ Len(ran) <= 1
        /\ \A k \in 1..Len(ran) :
             /\ ran[k].call = handle
             /\ ran[k].at >= dtask[handle].called + delay
        /\ Scheduled = {} => Len(ran) = 1

\* a burst of three calls at different times: the tasks of the first two
\* were cancelled, one asleep and one before it was first polled, and the
\* action of the third ran once its delay had elapsed
C30_Witness ==
    /\ burst
    /\ handle = 3
    /\ delay = 2
    /\ dtask[1].st = "cancelled" /\ dtask[1].wake > 0
    /\ dtask[2].st = "cancelled" /\ dtask[2].wake = 0
    /\ dtask[1].called < dtask[2].called
    /\ dtask[2].called < dtask[3].called
    /\ dtask[3].st = "done"
    /\ Len(ran) = 1
    /\ ran[1].call = 3

\* a save ends without the file holding the buffer text: save_to failed
SaveFailed ==
    /\ lock \in { "actor", "timer" }
    /\ lock' = "free"
    /\ file' = file
    /\ file # EolConverted(buffer, eol)

\* C31: when a save of the session's buffer fails, the status text of the
\* frames that follow shows it, and the save is scheduled again for the next
\* debounce tick, so that the file gets the buffer text without a further
\* edit.
C31_SaveFailureRetried ==
    [][SaveFailed =>
         /\ StatusLeft(TRUE) # StatusLeft(FALSE)
         /\ sleeping' \/ fired' > 0]_vars

(***************************************************************************)
(* Claims about the frame channel under load (SpecBurst).                  *)
(***************************************************************************)
\* C32: while the frame receiver is alive, every RequestFrame and every
\* Insert applied in editor mode puts exactly one frame on the frame
\* channel, its own, in order; the channel never holds more than its
\* capacity of 8, and while it is full the actor keeps the frame it composed
\* and waits, and frames leave the channel only by being received.
C32_OneFramePerRequest ==
    /\ [](txOpen => FrameStream = FramesOf(Processed, opened, 0, 0))
    /\ [](Len(tx) <= ChanCap)
    /\ [][(txOpen /\ spc = "emit" /\ Len(tx) = ChanCap) =>
            (spc' = "emit" /\ pending' = pending)]_vars
    /\ [][tx' # tx =>
            \/ (tx' = Append(tx, pending) /\ spc = "emit")
            \/ (tx' = Tail(tx) /\ gotFrames' = Append(gotFrames, Head(tx)))]_vars

\* the frame of an Insert was received, the eight frames of the requests
\* after it fill the channel, and the actor waits with the frame of the tenth
\* command
C32_Witness ==
    /\ txOpen
    /\ Len(Processed) = 10
    /\ sentCmds[1].op = "Insert"
    /\ Len(gotFrames) = 1
    /\ gotFrames[1].doc_v = 1
    /\ Len(tx) = ChanCap
    /\ spc = "emit"

(***************************************************************************)
(* Claims about the transport (SpecTransport).                             *)
(***************************************************************************)
\* the payloads of the Binary items of w that stand before its first Close
\* or error
RECURSIVE BinaryPayloads(_)
BinaryPayloads(w) ==
    IF w = <<>> \/ Head(w).kind \in { "Close", "Err" } THEN <<>>
    ELSE (IF Head(w).kind = "Binary" THEN <<Head(w).data>> ELSE <<>>)
           \o BinaryPayloads(Tail(w))

\* C33: Transport::recv yields the payloads of the Binary frames received,
\* in arrival order and each once; nothing of a Ping, Pong or other frame is
\* yielded; nothing that arrives after a Close frame or a read error is
\* yielded, and once recv has returned None everything forwarded before has
\* been yielded.
C33_RecvInOrder ==
    /\ yielded \o chan = BinaryPayloads(SubSeq(wire, 1, tpos))
    /\ \E n \in 0..Len(BinaryPayloads(wire)) :
         yielded = SubSeq(BinaryPayloads(wire), 1, n)
    /\ recvNone => (chan = <<>> /\ yielded = BinaryPayloads(wire))

\* two different payloads arrived around a text frame and a Ping and were
\* yielded in that order, a Close came next, and recv has returned None
C33_Witness ==
    /\ recvNone
    /\ yielded = <<2, 1>>
    /\ Len(wire) = 4
    /\ wire[2].kind \in { "Text", "Ping" }
    /\ wire[4].kind = "Close"

(***************************************************************************)
(* Claims about the trailing-whitespace span (SpecCompose).                *)
(***************************************************************************)
\* the "ws" spans a frame must have when they are computed from the full
\* lines: the whitespace tail of each line, clipped to the window
\* [hscroll, hscroll + cols) and shifted by hscroll
WsOfFullLines(t, a) ==
    LET full == SliceLines(t, a.first_line, a.rows)
        lo(j) == Len(TrimEnd(full[j]))
        hi(j) == Len(full[j])
        from(j) == IF lo(j) > a.hscroll THEN lo(j) ELSE a.hscroll
        to(j) == Min(hi(j), a.hscroll + a.cols)
    IN  { [row |-> j - 1, start_col |-> from(j) - a.hscroll,
           end_col |-> to(j) - a.hscroll, class |-> "ws"] :
            j \in { k \in 1..Len(full) : lo(k) < hi(k) /\ from(k) < to(k) } }

\* C34: a composed editor frame has a "ws" span for a row exactly when the
\* full buffer line ends with spaces or tabs and that tail intersects the
\* visible columns, and the span is the tail clipped to the window and
\* shifted by hscroll; a line that ends in whitespace only where it was cut
\* at the right edge has none.
C34_WsFromFullLine ==
    (vframe # NoView /\ vframe.kind = "editor") =>
        { vframe.spans[k] : k \in { i \in 1..Len(vframe.spans) :
                                      vframe.spans[i].class = "ws" } }
          = WsOfFullLines(vtext, vargs)

(***************************************************************************)
(* Claims about the legacy server (SpecLegacy).                            *)
(***************************************************************************)
\* C35: whenever a client's connection has ended, by a clean close, a
\* socket error or a message that fails to parse, the file lock it acquired
\* is released, and a LockRequest by a client that does not hold the lock
\* is answered with success.
C35_LockReleasedAtEnd ==
    /\ hpc = "none" => ~held
    /\ \A k \in 1..Len(replies) : ~replies[k].holder => replies[k].success

(***************************************************************************)
(* Claims about the legacy client (SpecClient).                            *)
(***************************************************************************)
\* how often id stands in the sequence q
Occurrences(q, id) == Cardinality({ k \in 1..Len(q) : q[k] = id })

\* C36: every message ever queued is sent to the server at most once and is
\* never lost (it is queued, being flushed, or sent); once a reconnection
\* has let the request that triggered it go on to its own send, the queue
\* is empty and everything queued before has been sent.
C36_QueueFlushedOnce ==
    /\ \A id \in enqueued :
         /\ Occurrences(sentLog, id) <= 1
         /\ \/ Occurrences(sentLog, id) = 1
            \/ Occurrences(queue, id) = 1
            \/ Occurrences(flushing, id) = 1
    /\ (cpc = "send" /\ attempts > 0) =>
         (queue = <<>> /\ \A id \in enqueued : Occurrences(sentLog, id) = 1)

\* C40: connect, recover and request make at most four connection attempts
\* per call, and whenever one of them has returned, status() is Connected
\* exactly when the client holds an authenticated socket and is
\* Disconnected otherwise, never Reconnecting.
C40_StatusAfterReturn ==
    /\ attempts <= 4
    /\ cpc = "idle" =>
         /\ status = "Connected" <=> cws
         /\ status # "Reconnecting"

(***************************************************************************)
(* Claims about the legacy editor's UndoStack (SpecEditorUndo).            *)
(***************************************************************************)
\* the last n elements of q, all of it when it is shorter
LastN(q, n) == SubSeq(q, IF Len(q) > n THEN Len(q) - n + 1 ELSE 1, Len(q))

\* C37: with a limit of at least 1, after every push, undo, redo and clear
\* the stack stores at most limit entries and position is at most their
\* number; a push keeps the entries below position (the undone ones are
\* discarded), adds the record, and keeps of that only the newest limit
\* entries (the oldest are evicted).
C37_BoundedStack ==
    /\ [](Len(entries) <= limit /\ position <= Len(entries))
    /\ [][npush' = npush + 1 =>
            /\ Len(entries') >= 1
            /\ entries'[Len(entries')].text = npush'
            /\ entries' = LastN(SubSeq(entries, 1, position)
                                  \o <<entries'[Len(entries')]>>, limit)
            /\ position' = Len(entries')]_vars

\* a push onto a full stack with undone entries: the undone entry is gone
\* and the oldest entry was evicted before
C37_Witness ==
    /\ limit = 2
    /\ npush = 4
    /\ Len(entries) = 2
    /\ entries[1].text = 2
    /\ entries[2].text = 4
    /\ position = 2

(***************************************************************************)
(* Claims about undoing a whole history (SpecUndo).                        *)
(***************************************************************************)
\* the buffer text after undo has been called until it returns false
RECURSIVE UndoUntilFalse(_, _, _)
UndoUntilFalse(b, p, f) ==
    LET r == UndoStackUndo(b, p, f)
    IN  IF r.ok THEN UndoUntilFalse(r.buf, r.past, r.future) ELSE b

\* C38: after any sequence of insert, delete, undo and redo calls made
\* through the UndoStack, calling undo until it returns false leaves the
\* initial buffer text; undo on an empty past returns false and changes
\* neither the buffer nor the stacks.
C38_UndoAllRestoresInitial ==
    /\ UndoUntilFalse(ubuf, past, future) \in UndoTexts
    /\ past = <<>> =>
         UndoStackUndo(ubuf, past, future)
           = [ok |-> FALSE, buf |-> ubuf, past |-> past, future |-> future]

\* an insert was coalesced onto an entry that an undo had put back on top of
\* past (the undone delete was dropped from future), and the buffer differs
\* from the initial text
C38_Witness ==
    /\ lastOp.op = "insert"
    /\ lastOp.coalesced
    /\ lastOp.dropped = 1
    /\ Len(past) = 1
    /\ past[1].text = <<"x", "y", "z">>
    /\ ubuf \notin UndoTexts

(***************************************************************************)
(* Claims about failures confined to one connection (Spec).                *)
(***************************************************************************)
\* C39: no step that handles one incoming connection (its WebSocket
\* handshake failing, the Busy reply being sent or closed while the peer
\* goes away) ends the accept loop: run_tcp returns only when
\* listener.accept itself fails.
C39_AcceptLoopSurvives ==
    [][accPc' = "dead" => accPc \in { "accept", "dead" }]_vars
====
